---- MODULE Spec2Model ----
(***************************************************************************)
(* A model of civic-lib-core: the paginated GraphQL fetchers and their     *)
(* error handler (civic_lib_core/graphql_utils.py) and the public-API      *)
(* extractors of the documentation generator (civic_lib_core/doc_utils.py  *)
(* and civic_lib_core/docs_api_extract.py).                                *)
(*                                                                         *)
(* Python values are modelled as follows.  A dict with string keys is a    *)
(* function whose domain is its key set.  A list is a sequence.  None is   *)
(* the string "None".  A text whose characters matter (an exception text,  *)
(* an identifier) is a sequence of one-character strings.  A nested        *)
(* response dict is the set of key paths present in it plus the values at  *)
(* the paths the fetchers read.                                            *)
(***************************************************************************)
EXTENDS Integers, Sequences, FiniteSets, TLC

VARIABLES
    pc,             \* position of the running call
    fn,             \* the function that was called
    data_path,      \* async_paged_query / paged_query: path to the record list
    page_info_path, \* async_paged_query: explicit path to pageInfo, or None
    variables,      \* fetch_paginated: the caller's base variables (a dict)
    after,          \* the loop's cursor
    collected,      \* the loop's accumulator (collected / all_results)
    requests,       \* variable_values of every execute_async call, in order
    responses,      \* every response execute_async returned, in order
    outcome,        \* what the call returned or raised
    hte_in,         \* the arguments handle_transport_errors was given
    package,        \* the package directory being documented
    strategy,       \* which extract_module_api is running
    todo,           \* files rglob has not yielded yet
    api_data,       \* the mapping extract_module_api is building
    out_dir,        \* the API output directory: whether it exists, its files
    ran,            \* how often each renderer ran since another writer
    site,           \* the site configuration file (mkdocs.yml)
    docs_call,      \* the documentation call made last, and how it ended
    agent_version,  \* check_version / parse_version: the version given first
    lib_version,    \* check_version: the version given second
    strict,         \* check_version: whether an exact match is asked for
    version_out,    \* what check_version / parse_version returned or raised
    logger_initialized, \* log_utils._logger_initialized
    handlers,       \* the handlers registered with the loguru logger, in order
    log_call,       \* the init_logger call made last, and how it ended
    command,        \* the civic-dev command that was run
    env,            \* what the command finds in the working directory
    cli_pc,         \* the step of the command to run next (0: none)
    steps_run,      \* the steps run so far, each with its return code
    exit_code,      \* the exit code of the command (-1: still running)
    report_dir,     \* the agent's report folder: whether it exists, its files
    report_out,     \* what the write_report call made last was given and did
    defaults,       \* the library's default policy (dict1)
    override,       \* the project's policy (dict2)
    policy_out,     \* what the policy call made last returned or raised
    packages,       \* publish_api_docs: the packages of the project layout
    pkg_next,       \* publish_api_docs: the package its loop documents next
    site_policy,    \* the policy the site configuration is made from
    mkdocs          \* what the site configuration call made last wrote

fetchVars == <<pc, fn, data_path, page_info_path, variables, after, collected,
               requests, responses, outcome, hte_in>>
extractVars == <<package, strategy, todo, api_data>>
docsVars == <<out_dir, ran, site, docs_call>>
coreVars == <<fetchVars, extractVars, docsVars>>
versionVars == <<agent_version, lib_version, strict, version_out>>
logVars == <<logger_initialized, handlers, log_call>>
cliVars == <<command, env, cli_pc, steps_run, exit_code>>
reportVars == <<report_dir, report_out>>
policyVars == <<defaults, override, policy_out>>
publishVars == <<packages, pkg_next>>
mkdocsVars == <<site_policy, mkdocs>>
toolVars == <<versionVars, logVars, cliVars, reportVars, policyVars,
              publishVars, mkdocsVars>>
vars == <<pc, fn, data_path, page_info_path, variables, after, collected,
          requests, responses, outcome, hte_in, package, strategy, todo, api_data,
          out_dir, ran, site, docs_call, toolVars>>

(***************************************************************************)
(* Bounds of the model.                                                    *)
(***************************************************************************)
\* most requests one fetch issues before the model stops following it
MaxPages == 3
\* most files in a package directory
MaxFiles == 2
\* most runs in a row of one renderer on one directory
MaxRuns == 2

None == "None"

(***************************************************************************)
(* Exceptions.                                                             *)
(***************************************************************************)
Exc(cls, text) == [cls |-> cls, text |-> text]
NoExc == Exc("none", <<>>)

\* str(e) of the transport failures the endpoint produces
ErrorTexts == { <<"4", "0", "3">>,            \* "403"
                <<"5", "0", "0">>,            \* "500"
                <<"e", "4", "0", "3", "!">>,  \* "e403!"
                <<"4", "0", "4", "3">> }      \* "4043"

TransportClasses == {"TransportServerError", "TransportQueryError",
                     "TransportProtocolError", "Exception"}

TransportFailures == {Exc(c, t) : c \in TransportClasses, t \in ErrorTexts}

\* Python's `sub in s` for texts
Contains(s, sub) ==
    \E i \in 0..(Len(s) - Len(sub)) :
        \A j \in 1..Len(sub) : s[i + j] = sub[j]

ResourceNames == { <<"TestResource">>, <<"https://fake.url/graphql">> }

\* what a function call did: returned a value or raised an exception
Returned(v) == [kind |-> "return", value |-> v, exc |-> NoExc]
Raised(e) == [kind |-> "raise", value |-> <<>>, exc |-> e]
NoOutcome == [kind |-> "none", value |-> <<>>, exc |-> NoExc]

\* a mutant: every server error is treated as an access denial
HandleTransportErrorsAnyServerError(e, resource_name) ==
    IF e.cls = "TransportServerError"
      THEN Returned(resource_name \o <<" access not yet granted">>)
      ELSE Raised(e)

\* handle_transport_errors(e, resource_name)
HandleTransportErrors(e, resource_name) ==
    IF e.cls = "TransportServerError" /\ Contains(e.text, <<"4", "0", "3">>)
      THEN Returned(resource_name \o <<" access not yet granted">>)
      ELSE Raised(e)


(***************************************************************************)
(* The endpoint's responses.                                               *)
(***************************************************************************)
Cursors == {"c1", "c2"}

\* the page bodies (lists of edges) the endpoint serves
PageBodies == { <<>>,
            <<[node |-> "r1"]>>,
            <<[node |-> "r2"], [node |-> "r1"]>> }

\* the keys of a pageInfo block at path pi
Block(pi) == {pi, pi \o <<"hasNextPage">>, pi \o <<"endCursor">>}

\* the response layouts whose record list and pageInfo sit under `root`:
\* keys are the key paths present, nulls the paths whose value is None
ShapesAt(root) ==
    LET here == {SubSeq(root, 1, i) : i \in 1..Len(root)}
        E == root \o <<"edges">>
        PI == root \o <<"pageInfo">>
        ALT == root \o <<"paging">>
    IN  { [keys |-> here \cup {E} \cup Block(PI), nulls |-> {}],
          [keys |-> here \cup {E} \cup Block(ALT), nulls |-> {}],
          [keys |-> here \cup {E}, nulls |-> {}],
          [keys |-> here \cup {E, PI, PI \o <<"endCursor">>}, nulls |-> {}],
          [keys |-> here \cup Block(PI), nulls |-> {}],
          [keys |-> here \cup {E, PI}, nulls |-> {PI}],
          [keys |-> here, nulls |-> {}],
          [keys |-> here, nulls |-> here] }

Shapes == ShapesAt(<<"items">>) \cup ShapesAt(<<>>)

HasKeyNamed(shape, name) ==
    \E p \in shape.keys : Len(p) > 0 /\ p[Len(p)] = name

\* fields the layout lacks carry no information
Normal(r) ==
    /\ ~HasKeyNamed(r.shape, "edges") => r.edges = <<>>
    /\ ~HasKeyNamed(r.shape, "hasNextPage") => r.hasNextPage = FALSE
    /\ ~HasKeyNamed(r.shape, "endCursor") => r.endCursor = None
    /\ ~r.hasNextPage => r.endCursor = None

Responses ==
    { r \in [shape : Shapes, edges : PageBodies, hasNextPage : BOOLEAN,
             endCursor : Cursors \cup {None}] : Normal(r) }

(***************************************************************************)
(* Reading a response.                                                     *)
(***************************************************************************)
\* `for key in path: x = x[key]` from the i-th key on: "ok", or the
\* exception the subscript raises
RECURSIVE WalkFrom(_, _, _)
WalkFrom(resp, path, i) ==
    IF i > Len(path) THEN "ok"
    ELSE IF SubSeq(path, 1, i - 1) \in resp.shape.nulls THEN "TypeError"
    ELSE IF SubSeq(path, 1, i) \notin resp.shape.keys THEN "KeyError"
    ELSE WalkFrom(resp, path, i + 1)

Walk(resp, path) == WalkFrom(resp, path, 1)

\* a mutant: a block without the flag counts as one with a true flag
GetHasNextPageOrTrue(resp, p) ==
    IF p \o <<"hasNextPage">> \in resp.shape.keys THEN resp.hasNextPage ELSE TRUE

\* d.get(key) of the dict at path p
GetHasNextPage(resp, p) ==
    IF p \o <<"hasNextPage">> \in resp.shape.keys THEN resp.hasNextPage ELSE FALSE

GetEndCursor(resp, p) ==
    IF p \o <<"endCursor">> \in resp.shape.keys THEN resp.endCursor ELSE None

\* a mutant: the page is put in front of the accumulator
ExtendInFront(list, items) == items \o list

\* list.extend(items)
Extend(list, items) == list \o items

\* a mutant: the edges are kept as they are
NodesKeepEdges(edges) == edges

\* [edge["node"] for edge in edges]
Nodes(edges) == [i \in 1..Len(edges) |-> edges[i].node]

\* a mutant: the conventional key is looked up at the top of the response
InferPageInfoPathTopLevel(dp) == <<"pageInfo">>

\* the path the pageInfo block is inferred at: data_path[:-1] + ["pageInfo"]
InferPageInfoPath(dp) == SubSeq(dp, 1, Len(dp) - 1) \o <<"pageInfo">>

(***************************************************************************)
(* The variables of a request.                                             *)
(***************************************************************************)
PageSize == 100

EmptyDict == [k \in {} |-> 0]

\* d.update(u) on a copy of d
Update(d, u) ==
    [k \in DOMAIN d \cup DOMAIN u |-> IF k \in DOMAIN u THEN u[k] ELSE d[k]]

\* the base variables callers of fetch_paginated pass (None counts as {})
VariableChoices ==
    { EmptyDict,
      [org |-> "acme"],
      [first |-> 5, after |-> "c2", org |-> "acme"] }

\* a mutant: the caller's entries win over the page size and the cursor
PageVarsCallerWins(base, cursor) ==
    Update([first |-> PageSize, after |-> cursor], base)

\* page_vars of fetch_paginated, variables of async_paged_query (base = {})
PageVars(base, cursor) ==
    Update(base, [first |-> PageSize, after |-> cursor])


(***************************************************************************)
(* One pass of the pagination loops.                                       *)
(***************************************************************************)
\* an optional path argument
NoPath == [given |-> FALSE, path |-> <<>>]
SomePath(p) == [given |-> TRUE, path |-> p]

DataPaths == { <<"items", "edges">>, <<"edges">> }

\* an explicit page_info_path that is not the conventional one
AltPageInfoPath(dp) == SubSeq(dp, 1, Len(dp) - 1) \o <<"paging">>

\* the result of one pass: the exception it raised (or NoExc), the
\* accumulator, whether the loop goes on, and the cursor
PageFailed(e, acc, cursor) ==
    [exc |-> e, collected |-> acc, more |-> FALSE, after |-> cursor]
PageDone(acc, more, cursor) ==
    [exc |-> NoExc, collected |-> acc, more |-> more, after |-> cursor]

InferenceError ==
    Exc("ValueError",
        <<"Could not infer page_info path. Please specify page_info_path.">>)

\* a mutant: the loop goes on whatever the flag says
MoreAlways(resp, pi) == TRUE

\* a mutant: the loop stops after the first page whatever the flag says
MoreNever(resp, pi) == FALSE

\* `not page_info.get("hasNextPage")` negated: does the loop go on
More(resp, pi) == GetHasNextPage(resp, pi)

\* a mutant: the cursor is not advanced
NextCursorStale(resp, pi, cursor) == cursor

\* after = page_info.get("endCursor")
NextCursor(resp, pi, cursor) == GetEndCursor(resp, pi)

\* a mutant: the explicit path is ignored and the block is always inferred
PageInfoAtAlwaysInferred(dp, pip) == InferPageInfoPath(dp)

\* where async_paged_query looks the pageInfo block up
PageInfoAt(dp, pip) == IF pip.given THEN pip.path ELSE InferPageInfoPath(dp)

\* async_paged_query, the loop body after the response arrived
AsyncPagedQueryPage(resp, acc, cursor, dp, pip) ==
    LET pi == PageInfoAt(dp, pip)
        acc2 == Extend(acc, resp.edges)
    IN  IF Walk(resp, dp) # "ok"
          THEN PageFailed(Exc(Walk(resp, dp), <<>>), acc, cursor)
        ELSE IF Walk(resp, pi) # "ok"
          THEN PageFailed(IF pip.given THEN Exc(Walk(resp, pi), <<>>)
                                       ELSE InferenceError, acc2, cursor)
        ELSE IF pi \in resp.shape.nulls
          THEN PageFailed(Exc("AttributeError", <<>>), acc2, cursor)
        ELSE IF ~More(resp, pi)
          THEN PageDone(acc2, FALSE, cursor)
        ELSE PageDone(acc2, TRUE, NextCursor(resp, pi, cursor))

\* fetch_paginated, the loop body after the response arrived
FetchPaginatedPage(resp, acc, cursor, data_key) ==
    LET page == <<data_key>>
        pi == page \o <<"pageInfo">>
        edges == IF page \o <<"edges">> \in resp.shape.keys
                   THEN resp.edges ELSE <<>>
        acc2 == Extend(acc, Nodes(edges))
    IN  IF page \notin resp.shape.keys
          THEN PageFailed(Exc("KeyError", <<>>), acc, cursor)
        ELSE IF page \in resp.shape.nulls
          THEN PageFailed(Exc("AttributeError", <<>>), acc, cursor)
        ELSE IF pi \in resp.shape.nulls
          THEN PageFailed(Exc("AttributeError", <<>>), acc2, cursor)
        ELSE IF ~More(resp, pi)
          THEN PageDone(acc2, FALSE, cursor)
        ELSE PageDone(acc2, TRUE, NextCursor(resp, pi, cursor))

\* the url paged_query passes on as resource_name
Url == <<"https://fake.url/graphql">>

\* paged_query's except clause: handle_transport_errors, then `return []`
PagedQueryCatch(e) ==
    IF HandleTransportErrors(e, Url).kind = "return"
      THEN Returned(<<>>)
      ELSE HandleTransportErrors(e, Url)

\* what the called function does with an exception of its loop
Propagate(f, e) == IF f = "paged_query" THEN PagedQueryCatch(e) ELSE Raised(e)

(***************************************************************************)
(* The fetchers as a state machine.                                        *)
(***************************************************************************)
ExtractIdle ==
    /\ package = EmptyDict
    /\ strategy = "none"
    /\ todo = {}
    /\ api_data = EmptyDict

\* no documentation call made, nothing written
NoDir == [exists |-> FALSE, files |-> EmptyDict]
NoSite == [written |-> FALSE, nav |-> <<>>]
NoCall == [fn |-> "none", formats |-> {}, include_api_nav |-> FALSE,
           custom_nav |-> <<>>, under_root |-> FALSE, result |-> "none",
           log |-> {}]
NoRuns == [f \in {"write_markdown_docs", "write_yaml_summary"} |-> 0]

\* no version checked
NoVersionOut == [fn |-> "none", kind |-> "none", value |-> <<>>,
                 compatible |-> FALSE, log |-> {}]

VersionIdle ==
    /\ agent_version = <<>>
    /\ lib_version = <<>>
    /\ strict = FALSE
    /\ version_out = NoVersionOut

\* a handler of the logger: its sink, its level, and who added it
Handler(sink, level, by) == [sink |-> sink, level |-> level, by |-> by]

\* the handler loguru starts with
DefaultHandler == Handler("stderr", "DEBUG", "loguru")

NoLogCall == [fn |-> "none", log_level |-> None, log_to_console |-> FALSE,
              kind |-> "none"]

LogIdle ==
    /\ logger_initialized = FALSE
    /\ handlers = << DefaultHandler >>
    /\ log_call = NoLogCall

\* what a command may find: the VERSION file, pyproject.toml, tests/, the
\* return code of git diff --cached --quiet, the tag of the version
NoEnv == [version_file |-> FALSE, pyproject |-> FALSE, tests |-> FALSE,
          diff |-> 0, tag_exists |-> FALSE]

CliIdle ==
    /\ command = "none"
    /\ env = NoEnv
    /\ cli_pc = 0
    /\ steps_run = <<>>
    /\ exit_code = -1

NoReportOut == [file_format |-> "none", kind |-> "none"]

ReportIdle ==
    /\ report_dir = NoDir
    /\ report_out = NoReportOut

NoPolicyOut == [fn |-> "none", kind |-> "none", policy |-> EmptyDict,
                default_file |-> "none", project_root |-> FALSE,
                custom_file |-> "none"]

PolicyIdle ==
    /\ defaults = EmptyDict
    /\ override = EmptyDict
    /\ policy_out = NoPolicyOut

PublishIdle ==
    /\ packages = <<>>
    /\ pkg_next = 0

NoMkdocs == [fn |-> "none", config_path |-> "", docs_dir |-> "",
             nav_base |-> "", index_dir |-> ""]

MkdocsIdle ==
    /\ site_policy = EmptyDict
    /\ mkdocs = NoMkdocs

ToolsIdle ==
    /\ VersionIdle
    /\ LogIdle
    /\ CliIdle
    /\ ReportIdle
    /\ PolicyIdle
    /\ PublishIdle
    /\ MkdocsIdle

DocsIdle ==
    /\ out_dir = NoDir
    /\ ran = NoRuns
    /\ site = NoSite
    /\ docs_call = NoCall

InitFetch ==
    /\ pc = "idle"
    /\ fn = "none"
    /\ data_path = <<>>
    /\ page_info_path = NoPath
    /\ variables = EmptyDict
    /\ after = None
    /\ collected = <<>>
    /\ requests = <<>>
    /\ responses = <<>>
    /\ outcome = NoOutcome
    /\ hte_in = [e |-> NoExc, resource_name |-> <<>>]
    /\ ExtractIdle
    /\ DocsIdle
    /\ ToolsIdle

Enter(f, dp, pip, base) ==
    /\ pc = "idle"
    /\ pc' = "request"
    /\ fn' = f
    /\ data_path' = dp
    /\ page_info_path' = pip
    /\ variables' = base
    /\ after' = None
    /\ collected' = <<>>
    /\ UNCHANGED <<requests, responses, outcome, hte_in>>
    /\ UNCHANGED extractVars
    /\ UNCHANGED docsVars
    /\ UNCHANGED toolVars

CallAsyncPagedQuery ==
    \E dp \in DataPaths : \E pip \in {NoPath, SomePath(AltPageInfoPath(dp))} :
        Enter("async_paged_query", dp, pip, EmptyDict)

CallPagedQuery ==
    \E dp \in DataPaths : Enter("paged_query", dp, NoPath, EmptyDict)

CallFetchPaginated ==
    \E base \in VariableChoices :
        Enter("fetch_paginated", <<"items", "edges">>, NoPath, base)

\* client.execute_async(query, variable_values=...) is issued
SendRequest ==
    /\ pc = "request"
    /\ Len(requests) < MaxPages
    /\ requests' = Append(requests, PageVars(variables, after))
    /\ pc' = "await"
    /\ UNCHANGED <<fn, data_path, page_info_path, variables, after, collected,
                   responses, outcome, hte_in>>
    /\ UNCHANGED extractVars
    /\ UNCHANGED docsVars
    /\ UNCHANGED toolVars

Finish(result) ==
    /\ outcome' = result
    /\ pc' = IF result.kind = "return" THEN "returned" ELSE "raised"

Step(resp, r) ==
    /\ responses' = Append(responses, resp)
    /\ collected' = r.collected
    /\ after' = r.after
    /\ IF r.exc # NoExc THEN Finish(Propagate(fn, r.exc))
       ELSE IF r.more THEN pc' = "request" /\ outcome' = outcome
       ELSE Finish(Returned(r.collected))
    /\ UNCHANGED <<fn, data_path, page_info_path, variables, requests, hte_in>>
    /\ UNCHANGED extractVars
    /\ UNCHANGED docsVars
    /\ UNCHANGED toolVars

\* the response arrives in async_paged_query (also under paged_query)
AsyncPagedQueryResponse ==
    /\ pc = "await"
    /\ fn \in {"async_paged_query", "paged_query"}
    /\ \E resp \in Responses :
         Step(resp, AsyncPagedQueryPage(resp, collected, after, data_path,
                                        page_info_path))

\* the response arrives in fetch_paginated
FetchPaginatedResponse ==
    /\ pc = "await"
    /\ fn = "fetch_paginated"
    /\ \E resp \in Responses :
         Step(resp, FetchPaginatedPage(resp, collected, after, data_path[1]))

\* execute_async raises instead of returning
TransportFailure ==
    /\ pc = "await"
    /\ \E e \in TransportFailures : Finish(Propagate(fn, e))
    /\ UNCHANGED <<fn, data_path, page_info_path, variables, after, collected,
                   requests, responses, hte_in>>
    /\ UNCHANGED extractVars
    /\ UNCHANGED docsVars
    /\ UNCHANGED toolVars

HandlerFailures ==
    TransportFailures \cup {Exc("ValueError", t) : t \in ErrorTexts}

\* handle_transport_errors called on its own
CallHandleTransportErrors ==
    /\ pc = "idle"
    /\ \E e \in HandlerFailures : \E name \in ResourceNames :
         /\ hte_in' = [e |-> e, resource_name |-> name]
         /\ Finish(HandleTransportErrors(e, name))
    /\ fn' = "handle_transport_errors"
    /\ UNCHANGED <<data_path, page_info_path, variables, after, collected,
                   requests, responses>>
    /\ UNCHANGED extractVars
    /\ UNCHANGED docsVars
    /\ UNCHANGED toolVars

NextFetch ==
    \/ CallAsyncPagedQuery
    \/ CallPagedQuery
    \/ CallFetchPaginated
    \/ SendRequest
    \/ AsyncPagedQueryResponse
    \/ FetchPaginatedResponse
    \/ TransportFailure
    \/ CallHandleTransportErrors

SpecFetch == InitFetch /\ [][NextFetch]_vars


(***************************************************************************)
(* Properties of the fetchers.                                             *)
(***************************************************************************)
Fetchers == {"async_paged_query", "fetch_paginated"}

\* the record lists of the first n responses, one after the other
RECURSIVE PagesUpTo(_, _)
PagesUpTo(rs, n) == IF n = 0 THEN <<>> ELSE PagesUpTo(rs, n - 1) \o rs[n].edges

\* the path at which the running call reads the pagination block
CallPageInfoPath ==
    IF page_info_path.given THEN page_info_path.path
    ELSE SubSeq(data_path, 1, Len(data_path) - 1) \o <<"pageInfo">>

\* the continuation flag and the cursor response n carries there
FlagOf(n) == GetHasNextPage(responses[n], CallPageInfoPath)
EndCursorOf(n) == GetEndCursor(responses[n], CallPageInfoPath)

\* C1: the list a fetcher returns is the concatenation of the record lists
\* of the pages received, in the order received and in within-page order
\* (the node of every edge for fetch_paginated, the items themselves for
\* async_paged_query), nothing dropped, duplicated, deduplicated or reordered.
C1_Concatenation ==
    (pc = "returned" /\ fn \in Fetchers) =>
        LET all == PagesUpTo(responses, Len(responses))
        IN  /\ Len(outcome.value) = Len(all)
            /\ \A i \in 1..Len(all) :
                 outcome.value[i] =
                     IF fn = "fetch_paginated" THEN all[i].node ELSE all[i]

\* C1 witness: fetch_paginated returned two pages holding a repeated record
\* and a page that is not in sorted order
C1_Witness ==
    /\ pc = "returned"
    /\ fn = "fetch_paginated"
    /\ Len(responses) = 2
    /\ outcome.value = <<"r1", "r2", "r1">>

\* C2: a fetch issues one request per page up to and including the first
\* response whose hasNextPage is not true and none after it; when it returns
\* after k requests, responses 1..k-1 had the flag true, response k did not,
\* and the result holds the records of pages 1..k.
C2_RequestCount ==
    (fn \in Fetchers) =>
        /\ Len(requests) - Len(responses) \in {0, 1}
        /\ \A i \in 1..Len(responses) : i < Len(requests) => FlagOf(i)
        /\ pc = "returned" =>
             /\ Len(requests) = Len(responses)
             /\ Len(requests) >= 1
             /\ ~FlagOf(Len(requests))
             /\ Len(outcome.value) = Len(PagesUpTo(responses, Len(requests)))

\* C2 witness: a two-page fetch returned after exactly two requests
C2_Witness ==
    /\ pc = "returned"
    /\ fn = "fetch_paginated"
    /\ Len(requests) = 2
    /\ FlagOf(1)
    /\ ~FlagOf(2)

\* the endpoint never answers with the cursor it was asked with
EndpointAdvances ==
    \A n \in 1..Len(responses) : EndCursorOf(n) # requests[n].after

CursorChain ==
    /\ Len(requests) >= 1 => requests[1].after = None
    /\ \A n \in 1..Len(responses) :
         n + 1 <= Len(requests) => requests[n + 1].after = EndCursorOf(n)

\* C3 as stated: the first request carries no cursor, request n+1 carries the
\* endCursor of response n, and under an endpoint whose endCursor differs
\* from the cursor it was asked with no two requests carry the same cursor.
C3_Original ==
    (fn \in Fetchers) =>
        /\ CursorChain
        /\ EndpointAdvances =>
             \A i, j \in 1..Len(requests) :
                 i # j => requests[i].after # requests[j].after

\* C3 amended: the first request carries no cursor, request n+1 carries the
\* endCursor of response n, and under an endpoint whose endCursor differs
\* from the cursor it was asked with no two consecutive requests carry the
\* same cursor.
C3_CursorChain ==
    (fn \in Fetchers) =>
        /\ CursorChain
        /\ EndpointAdvances =>
             \A i \in 1..(Len(requests) - 1) :
                 requests[i].after # requests[i + 1].after

\* C3 witness: three requests whose cursors follow the endpoint's endCursors
C3_Witness ==
    /\ fn = "async_paged_query"
    /\ Len(requests) = 3
    /\ requests[2].after = "c1"
    /\ requests[3].after = "c2"
    /\ EndpointAdvances

\* C4: a fetch that returns a list returns the complete result: every
\* request it issued was answered and the list holds every page; a transport
\* failure never ends in a returned list (paged_query included).
C4_NoTruncatedList ==
    (pc = "returned" /\ fn \in Fetchers \cup {"paged_query"}) =>
        /\ Len(requests) = Len(responses)
        /\ Len(outcome.value) = Len(PagesUpTo(responses, Len(responses)))

\* C5: every request asks for exactly 100 records and carries the loop's
\* cursor, whatever the caller's variables hold under 'first' and 'after';
\* every other caller variable is sent unchanged and nothing else is sent.
C5_PageSize ==
    \A i \in 1..Len(requests) :
        /\ requests[i].first = 100
        /\ requests[i].after = (IF i = 1 THEN None ELSE EndCursorOf(i - 1))
        /\ DOMAIN requests[i] = DOMAIN variables \cup {"first", "after"}
        /\ \A k \in DOMAIN variables \ {"first", "after"} :
             requests[i][k] = variables[k]

\* C5 witness: fetch_paginated was given its own 'first' and 'after' and has
\* issued a second request
C5_Witness ==
    /\ fn = "fetch_paginated"
    /\ "first" \in DOMAIN variables
    /\ variables.first # 100
    /\ variables.after = "c2"
    /\ Len(requests) = 2


\* the response the running call processed last
LastResponse == responses[Len(responses)]

\* data_path minus its last segment, followed by 'pageInfo'
ConventionalPath == SubSeq(data_path, 1, Len(data_path) - 1) \o <<"pageInfo">>

\* some key of the path is not present on the way down the response
KeyMissing(r, path) ==
    \E i \in 1..Len(path) : SubSeq(path, 1, i) \notin r.shape.keys

\* the last request was answered, and the loop goes on after that response
Answered == Len(responses) >= 1 /\ Len(responses) = Len(requests)
GoesOn == pc = "request"

\* the block at path p of the last response is the one the call used
UsedBlockAt(p) ==
    /\ outcome.kind # "raise"
    /\ GoesOn <=> GetHasNextPage(LastResponse, p)

InferringCall ==
    /\ fn = "async_paged_query"
    /\ ~page_info_path.given
    /\ Answered

ExplicitCall ==
    /\ fn = "async_paged_query"
    /\ page_info_path.given
    /\ Answered

\* with page_info_path given, that path alone decides and nothing is inferred
ExplicitPathAlone ==
    ExplicitCall /\ Walk(LastResponse, data_path) = "ok" =>
        /\ outcome.exc # InferenceError
        /\ KeyMissing(LastResponse, page_info_path.path) =>
             outcome = Raised(Exc("KeyError", <<>>))
        /\ ~KeyMissing(LastResponse, page_info_path.path) =>
             UsedBlockAt(page_info_path.path)

\* C6 as stated: without page_info_path the block is read at data_path minus
\* its last segment plus 'pageInfo'; if that key or any key on the way is
\* absent the call raises the ValueError asking for page_info_path; with
\* page_info_path given, it alone is used.
C6_Original ==
    /\ InferringCall =>
         /\ KeyMissing(LastResponse, ConventionalPath) =>
              outcome = Raised(InferenceError)
         /\ ( /\ ~KeyMissing(LastResponse, ConventionalPath)
              /\ ~KeyMissing(LastResponse, data_path)
              /\ ConventionalPath \notin LastResponse.shape.nulls )
            => UsedBlockAt(ConventionalPath)
    /\ ExplicitPathAlone

\* C6 amended: without page_info_path the block is read at data_path minus
\* its last segment plus 'pageInfo'; if the record list was found and that
\* 'pageInfo' key is absent the call raises the ValueError asking for
\* page_info_path; if a segment of data_path is absent or holds None the call
\* raises the KeyError or TypeError of the record-list lookup instead; in
\* both cases nothing is returned; with page_info_path given, it alone is used.
C6_Inference ==
    /\ InferringCall =>
         /\ Walk(LastResponse, data_path) # "ok" =>
              /\ outcome.kind = "raise"
              /\ outcome.exc.cls \in {"KeyError", "TypeError"}
         /\ ( /\ Walk(LastResponse, data_path) = "ok"
              /\ KeyMissing(LastResponse, ConventionalPath) )
            => outcome = Raised(InferenceError)
         /\ ( /\ ~KeyMissing(LastResponse, ConventionalPath)
              /\ ~KeyMissing(LastResponse, data_path)
              /\ ConventionalPath \notin LastResponse.shape.nulls )
            => UsedBlockAt(ConventionalPath)
    /\ ExplicitPathAlone

\* C6 witness: the second page of an inferring call has its record list but
\* no 'pageInfo' next to it, and the call raised the ValueError
C6_Witness ==
    /\ InferringCall
    /\ Len(responses) = 2
    /\ ~KeyMissing(LastResponse, data_path)
    /\ KeyMissing(LastResponse, ConventionalPath)
    /\ outcome = Raised(InferenceError)

\* C7: handle_transport_errors returns '<resource_name> access not yet
\* granted' exactly when the error is a TransportServerError whose text
\* contains '403'; for every other error it raises the error it was given.
C7_HandleTransportErrors ==
    (fn = "handle_transport_errors") =>
        LET e == hte_in.e
            forbidden ==
                /\ e.cls = "TransportServerError"
                /\ \E i \in 1..Len(e.text) :
                     /\ i + 2 <= Len(e.text)
                     /\ SubSeq(e.text, i, i + 2) = <<"4", "0", "3">>
        IN  /\ forbidden =>
                /\ pc = "returned"
                /\ outcome.kind = "return"
                /\ outcome.value =
                     hte_in.resource_name \o <<" access not yet granted">>
            /\ ~forbidden =>
                /\ pc = "raised"
                /\ outcome.kind = "raise"
                /\ outcome.exc = e

\* C7 witness: a server error whose text holds 403 inside a longer text was
\* turned into the message
C7_Witness ==
    /\ fn = "handle_transport_errors"
    /\ hte_in.e = Exc("TransportServerError", <<"e", "4", "0", "3", "!">>)
    /\ outcome.kind = "return"


(***************************************************************************)
(* The public-API extractors.  A source file is its path below the package *)
(* directory (a sequence of parts, the last one the file stem) and its     *)
(* body: which names it defines at top level, as what, and the names its   *)
(* __all__ lists, in which order, with which docstrings, and whether the   *)
(* file can be read at all.  No definition takes parameters.                *)
(***************************************************************************)
\* code points of the characters that occur in names
Ord(c) ==
    CASE c = "." -> 46
      [] c = "_" -> 95
      [] c = "d" -> 100
      [] c = "f" -> 102
      [] c = "g" -> 103
      [] c = "i" -> 105
      [] c = "m" -> 109
      [] c = "p" -> 112

\* str.startswith
StartsWith(name, prefix) ==
    /\ Len(name) >= Len(prefix)
    /\ SubSeq(name, 1, Len(prefix)) = prefix

\* a < b for str
RECURSIVE StrLess(_, _)
StrLess(a, b) ==
    IF b = <<>> THEN FALSE
    ELSE IF a = <<>> THEN TRUE
    ELSE IF Ord(a[1]) # Ord(b[1]) THEN Ord(a[1]) < Ord(b[1])
    ELSE StrLess(Tail(a), Tail(b))

\* a mutant: the list is left in the order of the definitions
Unsorted(list) == list

\* where sorted(..., key=name) puts one more record: behind every record
\* whose name is not greater (the sort is stable)
RECURSIVE InsertByName(_, _)
InsertByName(list, r) ==
    IF list = <<>> THEN <<r>>
    ELSE IF StrLess(r.name, Head(list).name) THEN <<r>> \o list
    ELSE <<Head(list)>> \o InsertByName(Tail(list), r)

\* sorted(list, key=lambda x: x["name"])
RECURSIVE SortedByName(_)
SortedByName(list) ==
    IF list = <<>> THEN <<>>
    ELSE InsertByName(SortedByName(SubSeq(list, 1, Len(list) - 1)),
                      list[Len(list)])

\* the identifiers a module may define: f and _g
Names == { <<"f">>, <<"_", "g">> }

DefKinds == {"function", "asyncfunction", "class"}

\* what ast.get_docstring / inspect.getdoc give for a definition: None
\* when it has no docstring, "" for an empty one, or its text
Docstrings == {None, "", "Does it."}

\* what is wrong with a file: nothing; it has a syntax error; its bytes are
\* not UTF-8; its top-level code raises ImportError, or SystemExit, when it
\* is executed
Faults == {"none", "SyntaxError", "UnicodeDecodeError", "ImportError",
           "SystemExit"}

\* the exception classes among them that derive from Exception
ExceptionClasses == {"SyntaxError", "UnicodeDecodeError", "ImportError"}

Defined(defs) == {n \in DOMAIN defs : defs[n] # "absent"}

\* the orders in which a source can define the names of S
Orders(S) ==
    {o \in [1..Cardinality(S) -> S] :
        \A i, j \in 1..Cardinality(S) : o[i] = o[j] => i = j}

\* the docstring of a base class
BaseDoc == "Base of it."

\* a file that does not compile defines nothing, only a definition carries
\* a docstring, and only a class has a base class
WellFormed(body) ==
    /\ body.fault \in {"SyntaxError", "UnicodeDecodeError"} =>
         Defined(body.defs) = {}
    /\ \A n \in DOMAIN body.defs :
         body.defs[n] = "absent" => body.docs[n] = None
    /\ \A n \in body.inherits : body.defs[n] = "class"

\* the source files over the names N: what each name is defined as, what
\* __all__ lists, the order of the definitions, their docstrings, which of
\* the names `derived` are classes with a base class that has the docstring
\* BaseDoc, and what is wrong with the file
BodiesOver(N, kinds, docstrings, derived, faults) ==
    UNION { { body \in [defs : {d}, all : {{}, N}, order : Orders(Defined(d)),
                        docs : [N -> docstrings \cup {None}],
                        inherits : SUBSET derived, fault : faults] :
                WellFormed(body) } :
            d \in [N -> kinds \cup {"absent"}] }

\* sound files whose definitions have no docstring and no base class
ModuleBodies == BodiesOver(Names, DefKinds, {None}, {}, {"none"})

\* m.py, _p.py and __i__.py (a dunder file such as __init__.py)
FilePaths == { << <<"m">> >>, << <<"_", "p">> >>, << <<"_", "_", "i", "_", "_">> >> }

\* the package directories: at most MaxFiles files, each with some body
PackagesOf(bodies) ==
    UNION { [S -> bodies] :
              S \in {T \in SUBSET FilePaths : Cardinality(T) <= MaxFiles} }

Packages == PackagesOf(ModuleBodies)

\* ".".join(parts)
RECURSIVE JoinDots(_)
JoinDots(parts) ==
    IF Len(parts) = 1 THEN parts[1]
    ELSE parts[1] \o <<".">> \o JoinDots(Tail(parts))

\* the dotted module name of the file at `path`
ModuleName(path) == JoinDots(path)

FileName(path) == path[Len(path)]

\* extract_public_names: the strings of the list assigned to __all__
ExtractPublicNames(body) == body.all

\* a mutant: the allowlist is not consulted
IsPublicIgnoringAll(name, public_names) == ~StartsWith(name, <<"_">>)

\* not node.name.startswith("_") or node.name in public_names
IsPublic(name, public_names) ==
    ~StartsWith(name, <<"_">>) \/ name \in public_names

Placeholder == "No description available."

\* a mutant: the docstring is taken as it is
KeepDocstring(doc) == doc

\* doc or "No description available."
OrPlaceholder(doc) == IF doc = None \/ doc = "" THEN Placeholder ELSE doc

\* ast.get_docstring(node): the docstring in the body of the definition
AstGetDocstring(body, n) == body.docs[n]

\* inspect.getdoc(member): the __doc__ of the object and, when a class has
\* none, the first one found in its base classes
InspectGetdoc(body, n) ==
    IF body.docs[n] = None /\ n \in body.inherits
      THEN BaseDoc
      ELSE body.docs[n]

\* the dict appended for one function or class
Info(name, signature, docstring) ==
    [name |-> name, signature |-> signature, docstring |-> docstring]

\* the names of the body, in the order of their definitions, that are
\* defined as one of `kinds`
DefinedAs(body, kinds) ==
    SelectSeq(body.order, LAMBDA n : body.defs[n] \in kinds)

\* find_public_functions: the ast.FunctionDef nodes that pass the rule
FindPublicFunctions(body, public_names) ==
    LET nodes == SelectSeq(DefinedAs(body, {"function"}),
                           LAMBDA n : IsPublic(n, public_names))
    IN  SortedByName([i \in 1..Len(nodes) |->
            Info(nodes[i], nodes[i] \o <<"(", ")">>,
                 OrPlaceholder(AstGetDocstring(body, nodes[i])))])

\* find_public_classes: the ast.ClassDef nodes that pass the rule
FindPublicClasses(body, public_names) ==
    LET nodes == SelectSeq(DefinedAs(body, {"class"}),
                           LAMBDA n : IsPublic(n, public_names))
    IN  SortedByName([i \in 1..Len(nodes) |->
            Info(nodes[i], nodes[i],
                 OrPlaceholder(AstGetDocstring(body, nodes[i])))])

\* get_public_members: the functions and the classes of vars(module) whose
\* name does not start with an underscore
GetPublicMembers(body) ==
    LET functions == SelectSeq(DefinedAs(body, {"function", "asyncfunction"}),
                               LAMBDA n : ~StartsWith(n, <<"_">>))
        classes == SelectSeq(DefinedAs(body, {"class"}),
                             LAMBDA n : ~StartsWith(n, <<"_">>))
    IN  [functions |->
            SortedByName([i \in 1..Len(functions) |->
                Info(functions[i], functions[i] \o <<"(", ")">>,
                     OrPlaceholder(InspectGetdoc(body, functions[i])))]),
         classes |->
            SortedByName([i \in 1..Len(classes) |->
                Info(classes[i],
                     classes[i] \o <<"(", "self, /, *args, **kwargs", ")">>,
                     OrPlaceholder(InspectGetdoc(body, classes[i])))])]

\* what reading the file raises: parse_python_file decodes and parses it,
\* dynamic_import_from_path compiles and executes it
RaisedBy(how, body) ==
    IF how = "static"
      THEN IF body.fault \in {"SyntaxError", "UnicodeDecodeError"}
             THEN body.fault ELSE "none"
      ELSE IF body.fault = "UnicodeDecodeError"
             THEN "SyntaxError" ELSE body.fault

\* a mutant: no handler around the reading of a file
CaughtNever(how, exc) == FALSE

\* the handlers: `except SyntaxError` in parse_python_file,
\* `except Exception` in docs_api_extract.extract_module_api
Caught(how, exc) ==
    IF how = "static" THEN exc = "SyntaxError"
                      ELSE exc \in ExceptionClasses

\* the file is passed over for its name, before it is read
SkippedByName(how, path) ==
    IF how = "static"
      THEN \/ <<"t", "e", "s", "t", "s">> \in {path[i] : i \in 1..Len(path)}
           \/ StartsWith(FileName(path), <<"_", "_">>)
      ELSE StartsWith(FileName(path), <<"_">>)

\* reading the file raises and no handler catches it
Propagates(how, path, body) ==
    /\ ~SkippedByName(how, path)
    /\ RaisedBy(how, body) # "none"
    /\ ~Caught(how, RaisedBy(how, body))

\* d[k] = v
Put(d, k, v) == [x \in DOMAIN d \cup {k} |-> IF x = k THEN v ELSE d[x]]

\* doc_utils.extract_module_api, one pass of its loop
StaticFile(api, path, body) ==
    LET public_names == ExtractPublicNames(body)
        functions == FindPublicFunctions(body, public_names)
        classes == FindPublicClasses(body, public_names)
        withFunctions == IF functions # <<>>
                           THEN Put(EmptyDict, "functions", functions)
                           ELSE EmptyDict
        entry == IF classes # <<>>
                   THEN Put(withFunctions, "classes", classes)
                   ELSE withFunctions
    IN  IF SkippedByName("static", path)
          THEN api
        ELSE IF RaisedBy("static", body) # "none"
          THEN api
        ELSE IF functions = <<>> /\ classes = <<>>
          THEN api
        ELSE Put(api, ModuleName(path), entry)

\* docs_api_extract.extract_module_api, one pass of its loop
DynamicFile(api, path, body) ==
    IF SkippedByName("dynamic", path)
      THEN api
    ELSE IF RaisedBy("dynamic", body) # "none"
      THEN api
    ELSE Put(api, ModuleName(path), GetPublicMembers(body))

ExtractFile(how, api, path, body) ==
    IF how = "static" THEN StaticFile(api, path, body)
                      ELSE DynamicFile(api, path, body)

\* extract_module_api as a whole, over the files in `files`
RECURSIVE ExtractAll(_, _, _)
ExtractAll(how, pkg, files) ==
    IF files = {} THEN EmptyDict
    ELSE LET path == CHOOSE x \in files : TRUE
         IN  ExtractFile(how, ExtractAll(how, pkg, files \ {path}),
                         path, pkg[path])

(***************************************************************************)
(* The extractors as a state machine.                                      *)
(***************************************************************************)
FetchIdle ==
    /\ pc = "idle"
    /\ fn = "none"
    /\ data_path = <<>>
    /\ page_info_path = NoPath
    /\ variables = EmptyDict
    /\ after = None
    /\ collected = <<>>
    /\ requests = <<>>
    /\ responses = <<>>
    /\ outcome = NoOutcome
    /\ hte_in = [e |-> NoExc, resource_name |-> <<>>]

InitExtract ==
    /\ FetchIdle
    /\ package \in Packages
    /\ strategy = "none"
    /\ todo = {}
    /\ api_data = EmptyDict
    /\ DocsIdle
    /\ ToolsIdle

EnterExtract(how) ==
    /\ pc = "idle"
    /\ strategy = "none"
    /\ pc' = "walk"
    /\ strategy' = how
    /\ todo' = DOMAIN package
    /\ api_data' = EmptyDict
    /\ UNCHANGED <<fn, data_path, page_info_path, variables, after, collected,
                   requests, responses, outcome, hte_in, package>>
    /\ UNCHANGED docsVars
    /\ UNCHANGED toolVars

\* doc_utils.extract_module_api(source_path)
CallExtractStatic == EnterExtract("static")

\* docs_api_extract.extract_module_api(package_path)
CallExtractDynamic == EnterExtract("dynamic")

\* rglob yields the next file, in whatever order the file system gives, and
\* the loop body runs on it
ExtractNextFile ==
    /\ pc = "walk"
    /\ \E path \in todo :
         IF Propagates(strategy, path, package[path])
           THEN /\ pc' = "raised"
                /\ outcome' = Raised(Exc(RaisedBy(strategy, package[path]), <<>>))
                /\ UNCHANGED <<todo, api_data>>
           ELSE /\ api_data' = ExtractFile(strategy, api_data, path,
                                           package[path])
                /\ todo' = todo \ {path}
                /\ UNCHANGED <<pc, outcome>>
    /\ UNCHANGED <<fn, data_path, page_info_path, variables, after,
                   collected, requests, responses, hte_in, package, strategy>>
    /\ UNCHANGED docsVars
    /\ UNCHANGED toolVars

\* return api_data
ExtractReturn ==
    /\ pc = "walk"
    /\ todo = {}
    /\ pc' = "returned"
    /\ UNCHANGED <<fn, data_path, page_info_path, variables, after, collected,
                   requests, responses, outcome, hte_in>>
    /\ UNCHANGED extractVars
    /\ UNCHANGED docsVars
    /\ UNCHANGED toolVars

NextExtract ==
    \/ CallExtractStatic
    \/ CallExtractDynamic
    \/ ExtractNextFile
    \/ ExtractReturn

SpecExtract == InitExtract /\ [][NextExtract]_vars

\* files that may define f, with any fault
FaultyBodies == BodiesOver({<<"f">>}, {"function"}, {None}, {}, Faults)

\* the extractors on packages some of whose files cannot be read
InitFaulty ==
    /\ FetchIdle
    /\ package \in PackagesOf(FaultyBodies)
    /\ strategy = "none"
    /\ todo = {}
    /\ api_data = EmptyDict
    /\ DocsIdle
    /\ ToolsIdle

SpecFaulty == InitFaulty /\ [][NextExtract]_vars


(***************************************************************************)
(* The renderers.  A file name is a text; what a file holds is the         *)
(* sequence of the lines written to it, each line a record of what kind of *)
(* line it is, the name or signature in it, and the docstring in it.       *)
(***************************************************************************)
Line(kind, text, doc) == [line |-> kind, text |-> text, doc |-> doc]

\* f"{module_name}.md"
MdName(module_name) == module_name \o <<".", "m", "d">>

YamlName == <<"A", "P", "I", ".", "y", "a", "m", "l">>

\* a mutant: the file is opened for appending
OpenA(files, name, content) ==
    Put(files, name,
        (IF name \in DOMAIN files THEN files[name] ELSE <<>>) \o content)

\* with path.open("w") as f: the file holds what is then written
OpenW(files, name, content) == Put(files, name, content)

\* the "###" subsections of a section: signature, then docstring
RECURSIVE Subsections(_)
Subsections(list) ==
    IF list = <<>> THEN <<>>
    ELSE << Line("###", Head(list).signature, ""),
            Line("text", <<>>, Head(list).docstring) >>
         \o Subsections(Tail(list))

\* a mutant: the functions come before the classes
WriteModuleMarkdownFunctionsFirst(module_name, functions, classes) ==
    << Line("# Module", module_name, "") >>
    \o (IF functions # <<>>
          THEN << Line("##", <<"Functions">>, "") >> \o Subsections(functions)
          ELSE <<>>)
    \o (IF classes # <<>>
          THEN << Line("##", <<"Classes">>, "") >> \o Subsections(classes)
          ELSE <<>>)

\* write_module_markdown: what it writes to the file
WriteModuleMarkdown(module_name, functions, classes) ==
    << Line("# Module", module_name, "") >>
    \o (IF classes # <<>>
          THEN << Line("##", <<"Classes">>, "") >> \o Subsections(classes)
          ELSE <<>>)
    \o (IF functions # <<>>
          THEN << Line("##", <<"Functions">>, "") >> \o Subsections(functions)
          ELSE <<>>)

\* module_data.get(key, [])
GetList(module_data, key) ==
    IF key \in DOMAIN module_data THEN module_data[key] ELSE <<>>

\* write_markdown_docs, its loop over the modules in `modules`
RECURSIVE WriteMarkdownFiles(_, _, _)
WriteMarkdownFiles(api, modules, files) ==
    IF modules = {} THEN files
    ELSE LET module_name == CHOOSE m \in modules : TRUE
             functions == GetList(api[module_name], "functions")
             classes == GetList(api[module_name], "classes")
             rest == WriteMarkdownFiles(api, modules \ {module_name}, files)
         IN  IF functions = <<>> /\ classes = <<>>
               THEN rest
               ELSE OpenW(rest, MdName(module_name),
                          WriteModuleMarkdown(module_name, functions, classes))

\* write_markdown_docs(api_data, output_dir): the directory afterwards
WriteMarkdownDocs(api, dir) ==
    [exists |-> TRUE,
     files |-> WriteMarkdownFiles(api, DOMAIN api, dir.files)]

\* sorted(...) of distinct texts
RECURSIVE SortedTexts(_)
SortedTexts(S) ==
    IF S = {} THEN <<>>
    ELSE LET least == CHOOSE x \in S : \A y \in S \ {x} : StrLess(x, y)
         IN  <<least>> \o SortedTexts(S \ {least})

\* [f["name"] for f in functions]
NamesOf(list) == [i \in 1..Len(list) |-> list[i].name]

\* the lines "- name" of a YAML list of names
YamlItems(names) == [i \in 1..Len(names) |-> Line("-", names[i], "")]

\* yaml.dump of a dict of name lists, its keys in the order `keys`
RECURSIVE YamlDump(_, _)
YamlDump(d, keys) ==
    IF keys = <<>> THEN <<>>
    ELSE << Line("key", Head(keys), "") >> \o YamlItems(d[Head(keys)])
         \o YamlDump(d, Tail(keys))

\* write_yaml_summary: minimal_yaml
MinimalYaml(api) ==
    LET names(m) == NamesOf(GetList(api[m], "functions"))
    IN  [m \in {k \in DOMAIN api : names(k) # <<>>} |-> names(m)]

\* write_yaml_summary(api_data, output_dir): the directory afterwards
WriteYamlSummary(api, dir) ==
    LET minimal_yaml == MinimalYaml(api)
    IN  IF DOMAIN minimal_yaml = {}
          THEN dir
          ELSE [exists |-> TRUE,
                files |-> OpenW(dir.files, YamlName,
                                YamlDump(minimal_yaml,
                                         SortedTexts(DOMAIN minimal_yaml)))]

\* the dicts of a list of records, dumped by yaml.dump
RECURSIVE YamlRecords(_)
YamlRecords(list) ==
    IF list = <<>> THEN <<>>
    ELSE << Line("- name", Head(list).name, ""),
            Line("signature", Head(list).signature, ""),
            Line("docstring", <<>>, Head(list).docstring) >>
         \o YamlRecords(Tail(list))

\* yaml.dump(api_data, f, sort_keys=False), the modules in the order `keys`
RECURSIVE YamlDumpApi(_, _)
YamlDumpApi(api, keys) ==
    IF keys = <<>> THEN <<>>
    ELSE LET module_data == api[Head(keys)]
         IN  << Line("key", Head(keys), "") >>
             \o (IF "functions" \in DOMAIN module_data
                   THEN << Line("key", <<"functions">>, "") >>
                        \o YamlRecords(module_data["functions"])
                   ELSE <<>>)
             \o (IF "classes" \in DOMAIN module_data
                   THEN << Line("key", <<"classes">>, "") >>
                        \o YamlRecords(module_data["classes"])
                   ELSE <<>>)
             \o YamlDumpApi(api, Tail(keys))

\* doc_utils.generate_docs, its loop over api_data.items()
RECURSIVE GenerateDocsMarkdown(_, _, _)
GenerateDocsMarkdown(api, modules, files) ==
    IF modules = {} THEN files
    ELSE LET module_name == CHOOSE m \in modules : TRUE
             rest == GenerateDocsMarkdown(api, modules \ {module_name}, files)
         IN  OpenW(rest, MdName(module_name),
                   WriteModuleMarkdown(module_name,
                       GetList(api[module_name], "functions"),
                       GetList(api[module_name], "classes")))

\* doc_utils.generate_docs from the extraction on: the directory afterwards;
\* `keys` is the order in which the modules were put into api_data
DocUtilsGenerateDocs(api, formats, keys, dir) ==
    IF DOMAIN api = {}
      THEN [exists |-> TRUE, files |-> dir.files]
      ELSE LET yaml == IF "yaml" \in formats
                         THEN OpenW(dir.files, YamlName, YamlDumpApi(api, keys))
                         ELSE dir.files
               markdown == IF "markdown" \in formats
                             THEN GenerateDocsMarkdown(api, DOMAIN api, yaml)
                             ELSE yaml
           IN  [exists |-> TRUE, files |-> markdown]

(***************************************************************************)
(* The renderers as steps that follow an extraction.                       *)
(***************************************************************************)
Called(f) == [NoCall EXCEPT !.fn = f, !.result = "returned"]

\* docs_api_render.write_markdown_docs(api_data, output_dir)
CallWriteMarkdownDocs ==
    /\ pc = "returned"
    /\ ran["write_markdown_docs"] < MaxRuns
    /\ out_dir' = WriteMarkdownDocs(api_data, out_dir)
    /\ ran' = [ran EXCEPT !["write_markdown_docs"] = @ + 1]
    /\ docs_call' = Called("write_markdown_docs")
    /\ UNCHANGED fetchVars
    /\ UNCHANGED extractVars
    /\ UNCHANGED site
    /\ UNCHANGED toolVars

\* docs_api_render.write_yaml_summary(api_data, output_dir)
CallWriteYamlSummary ==
    /\ pc = "returned"
    /\ ran["write_yaml_summary"] < MaxRuns
    /\ out_dir' = WriteYamlSummary(api_data, out_dir)
    /\ ran' = [ran EXCEPT !["write_yaml_summary"] = @ + 1]
    /\ docs_call' = Called("write_yaml_summary")
    /\ UNCHANGED fetchVars
    /\ UNCHANGED extractVars
    /\ UNCHANGED site
    /\ UNCHANGED toolVars

\* doc_utils.generate_docs(source_pkg_str, output_dir_str, formats), after
\* its own extract_module_api has returned
CallDocUtilsGenerateDocs ==
    /\ pc = "returned"
    /\ strategy = "static"
    /\ \E formats \in {{"yaml"}, {"markdown"}, {"yaml", "markdown"}} :
       \E keys \in Orders(DOMAIN api_data) :
           out_dir' = DocUtilsGenerateDocs(api_data, formats, keys, out_dir)
    /\ ran' = NoRuns
    /\ docs_call' = Called("doc_utils.generate_docs")
    /\ UNCHANGED fetchVars
    /\ UNCHANGED extractVars
    /\ UNCHANGED site
    /\ UNCHANGED toolVars

NextRender ==
    \/ NextExtract
    \/ CallWriteMarkdownDocs
    \/ CallWriteYamlSummary
    \/ CallDocUtilsGenerateDocs

\* files that define some of f, g and _g as functions or classes, with or
\* without docstrings; a class g may have a base class
SymbolBodies ==
    BodiesOver({<<"f">>, <<"g">>, <<"_", "g">>}, {"function", "class"},
               Docstrings, {<<"g">>}, {"none"})

\* what the output directory may hold beforehand: it is not there, it is
\* empty, or it has files of an earlier run
StaleDir ==
    [exists |-> TRUE,
     files |-> (MdName(<<"m">>) :> << Line("old", <<>>, "") >>)
               @@ (YamlName :> << Line("old", <<>>, "") >>)]

InitialDirs == {NoDir, [exists |-> TRUE, files |-> EmptyDict], StaleDir}

\* extraction and rendering of a package of one module, m.py
InitSymbols ==
    /\ FetchIdle
    /\ package \in [{<< <<"m">> >>} -> SymbolBodies]
    /\ strategy = "none"
    /\ todo = {}
    /\ api_data = EmptyDict
    /\ out_dir = NoDir
    /\ ran = NoRuns
    /\ site = NoSite
    /\ docs_call = NoCall
    /\ ToolsIdle

SpecSymbols == InitSymbols /\ [][NextRender]_vars

\* files that may define f as a function or as a class
PlainBodies ==
    BodiesOver({<<"f">>}, {"function", "class"}, {None}, {}, {"none"})

\* extraction and rendering of a package of several modules, into any
\* output directory
InitRender ==
    /\ FetchIdle
    /\ package \in PackagesOf(PlainBodies)
    /\ strategy = "none"
    /\ todo = {}
    /\ api_data = EmptyDict
    /\ out_dir \in InitialDirs
    /\ ran = NoRuns
    /\ site = NoSite
    /\ docs_call = NoCall
    /\ ToolsIdle

SpecRender == InitRender /\ [][NextRender]_vars

(***************************************************************************)
(* The site configuration.  Of mkdocs.yml the model keeps the nav: a list  *)
(* of entries, each a title with a target or with a list of entries.       *)
(***************************************************************************)
NavEntry(title, target, items) ==
    [title |-> title, target |-> target, items |-> items]

\* {"Home": "index.md"}
Home == NavEntry(<<"Home">>, <<"index.md">>, <<>>)

\* str.endswith
EndsWith(name, suffix) ==
    /\ Len(name) >= Len(suffix)
    /\ SubSeq(name, Len(name) - Len(suffix) + 1, Len(name)) = suffix

\* api_src_dir.glob("*.md")
MdFiles(dir) == {name \in DOMAIN dir.files : EndsWith(name, <<".", "m", "d">>)}

\* md_file.stem: the name without its last suffix
Stem(name) ==
    LET dots == {i \in 2..(Len(name) - 1) : name[i] = "."}
    IN  IF dots = {} THEN name
        ELSE SubSeq(name, 1, (CHOOSE i \in dots : \A j \in dots : j <= i) - 1)

\* str.replace("_", " ")
ReplaceUnderscores(text) ==
    [i \in 1..Len(text) |-> IF text[i] = "_" THEN " " ELSE text[i]]

\* the cased characters of the names, all of them lower case
Letters == {"d", "f", "g", "i", "m", "p"}

\* str.upper of a letter
Upper(c) ==
    CASE c = "d" -> "D"
      [] c = "f" -> "F"
      [] c = "g" -> "G"
      [] c = "i" -> "I"
      [] c = "m" -> "M"
      [] c = "p" -> "P"

\* str.title(): a letter that follows no letter is put in upper case
Title(text) ==
    [i \in 1..Len(text) |->
        IF text[i] \in Letters /\ (i = 1 \/ text[i - 1] \notin Letters)
          THEN Upper(text[i]) ELSE text[i]]

\* md_file.relative_to(mkdocs_base_src_dir).as_posix(), the API directory
\* being <mkdocs_base_src_dir>/api
RelativeTo(name) == <<"a", "p", "i", "/">> \o name

\* build_api_nav(api_src_dir, mkdocs_base_src_dir); under_root says whether
\* the files of api_src_dir are below mkdocs_base_src_dir (relative_to
\* raises ValueError when they are not, and the file is left out)
BuildApiNav(dir, under_root) ==
    IF ~dir.exists THEN <<>>
    ELSE IF ~under_root THEN <<>>
    ELSE LET files == SortedTexts(MdFiles(dir))
         IN  [i \in 1..Len(files) |->
                NavEntry(Title(ReplaceUnderscores(Stem(files[i]))),
                         RelativeTo(files[i]), <<>>)]

\* a mutant: the custom entries are put in front of the API block
NavOfCustomFirst(include_api_nav, custom_nav, under_root, dir) ==
    LET api_nav == IF include_api_nav THEN BuildApiNav(dir, under_root)
                   ELSE <<>>
    IN  <<Home>>
        \o custom_nav
        \o (IF api_nav # <<>>
              THEN << NavEntry(<<"API Reference">>, <<>>, api_nav) >>
              ELSE <<>>)

\* generate_mkdocs_config: the nav it writes
NavOf(include_api_nav, custom_nav, under_root, dir) ==
    LET api_nav == IF include_api_nav THEN BuildApiNav(dir, under_root)
                   ELSE <<>>
    IN  <<Home>>
        \o (IF api_nav # <<>>
              THEN << NavEntry(<<"API Reference">>, <<>>, api_nav) >>
              ELSE <<>>)
        \o custom_nav

\* docs_api_config.generate_docs from the extraction on: the directory
\* afterwards
GenerateDocs(api, formats, dir) ==
    LET api_output_dir == [exists |-> TRUE, files |-> dir.files]
        yaml == IF "yaml" \in formats
                  THEN WriteYamlSummary(api, api_output_dir)
                  ELSE api_output_dir
    IN  IF DOMAIN api = {} THEN api_output_dir
        ELSE IF "markdown" \in formats THEN WriteMarkdownDocs(api, yaml)
        ELSE yaml

\* what generate_docs logs above the level of info
GenerateDocsLog(api) ==
    IF DOMAIN api = {} THEN {"WARNING No public API found in source code"}
                       ELSE {}

(***************************************************************************)
(* Documentation generation as steps that follow an extraction.            *)
(***************************************************************************)
\* the nav entries a caller may add
CustomNavs == { <<>>, << NavEntry(<<"Guide">>, <<"guide.md">>, <<>>) >> }

\* a formats argument: None, one string, a list of strings (its items), or
\* a value of another type
FormatArg(type, items) == [type |-> type, items |-> items]

FormatArgs ==
    { FormatArg("None", {}), FormatArg("str", {"yaml"}),
      FormatArg("list", {"yaml"}), FormatArg("list", {"markdown"}),
      FormatArg("list", {"yaml", "markdown"}), FormatArg("list", {"html"}),
      FormatArg("list", {}), FormatArg("int", {}) }

\* normalize_formats(formats): the list it returns, or that it raises
\* TypeError
NormalizeFormats(arg) ==
    CASE arg.type = "None" -> [raised |-> FALSE, list |-> {"yaml", "markdown"}]
      [] arg.type \in {"str", "list"} -> [raised |-> FALSE, list |-> arg.items]
      [] OTHER -> [raised |-> TRUE, list |-> {}]

\* docs_api_config.generate_docs(source_pkg_path, project_root, policy,
\* formats), after its extract_module_api has returned
CallGenerateDocs ==
    /\ pc = "returned"
    /\ strategy = "dynamic"
    /\ \E arg \in FormatArgs :
         LET formats == NormalizeFormats(arg)
         IN  IF formats.raised
               THEN /\ docs_call' =
                         [NoCall EXCEPT !.fn = "docs_api_config.generate_docs",
                                        !.result = "raised TypeError"]
                    /\ UNCHANGED <<out_dir, ran>>
               ELSE /\ out_dir' = GenerateDocs(api_data, formats.list, out_dir)
                    /\ docs_call' =
                         [NoCall EXCEPT !.fn = "docs_api_config.generate_docs",
                                        !.formats = formats.list,
                                        !.result = "returned",
                                        !.log = GenerateDocsLog(api_data)]
                    /\ ran' = NoRuns
    /\ UNCHANGED fetchVars
    /\ UNCHANGED extractVars
    /\ UNCHANGED site
    /\ UNCHANGED toolVars

\* docs_api_config.generate_mkdocs_config(project_name, root_dir, policy,
\* include_api_nav, custom_nav, mkdocs_base_src_dir, api_markdown_src_dir)
CallGenerateMkdocsConfig ==
    /\ pc = "returned"
    /\ \E include_api_nav \in BOOLEAN, custom_nav \in CustomNavs,
          under_root \in BOOLEAN :
         /\ site' = [written |-> TRUE,
                     nav |-> NavOf(include_api_nav, custom_nav, under_root,
                                   out_dir)]
         /\ docs_call' = [NoCall EXCEPT !.fn = "generate_mkdocs_config",
                                        !.include_api_nav = include_api_nav,
                                        !.custom_nav = custom_nav,
                                        !.under_root = under_root,
                                        !.result = "returned"]
    /\ UNCHANGED fetchVars
    /\ UNCHANGED extractVars
    /\ UNCHANGED <<out_dir, ran>>
    /\ UNCHANGED toolVars

\* docs_api_build.publish_api_docs(), after the extract_module_api of its
\* generate_api_docs has returned: generate_docs with formats ["markdown"],
\* write_index_md, generate_mkdocs_config, "published successfully"
CallPublishApiDocs ==
    /\ pc = "returned"
    /\ strategy = "dynamic"
    /\ out_dir' = GenerateDocs(api_data, {"markdown"}, out_dir)
    /\ site' = [written |-> TRUE, nav |-> NavOf(TRUE, <<>>, TRUE, out_dir')]
    /\ docs_call' =
         [NoCall EXCEPT !.fn = "publish_api_docs",
                        !.formats = {"markdown"},
                        !.include_api_nav = TRUE,
                        !.under_root = TRUE,
                        !.result = "returned",
                        !.log = GenerateDocsLog(api_data) \cup
                                {"INFO API documentation published successfully."}]
    /\ ran' = NoRuns
    /\ UNCHANGED fetchVars
    /\ UNCHANGED extractVars
    /\ UNCHANGED toolVars

NextPublish ==
    \/ NextExtract
    \/ CallGenerateDocs
    \/ CallGenerateMkdocsConfig
    \/ CallPublishApiDocs

\* what the API directory may hold beforehand: it is not there, or it has
\* some of these files
NavDirs ==
    {NoDir} \cup
    { [exists |-> TRUE, files |-> [name \in S |-> << Line("old", <<>>, "") >>]] :
        S \in SUBSET { <<"m", "_", "p", ".", "m", "d">>,
                       <<"_", "p", ".", "m", "d">>,
                       <<"p", ".", "m", ".", "m", "d">>,
                       YamlName } }

\* the package directories with no file or with one
SmallPackages ==
    {EmptyDict} \cup
    { [file \in {path} |-> body] : path \in FilePaths, body \in PlainBodies }

\* documentation generation for a package of at most one module
InitPublish ==
    /\ FetchIdle
    /\ package \in SmallPackages
    /\ strategy = "none"
    /\ todo = {}
    /\ api_data = EmptyDict
    /\ out_dir \in NavDirs
    /\ ran = NoRuns
    /\ site = NoSite
    /\ docs_call = NoCall
    /\ ToolsIdle

SpecPublish == InitPublish /\ [][NextPublish]_vars

(***************************************************************************)
(* Properties of the extractors.                                           *)
(***************************************************************************)
NameSet(list) == {list[i].name : i \in 1..Len(list)}

FunctionNames(api, module) == NameSet(GetList(api[module], "functions"))
ClassNames(api, module) == NameSet(GetList(api[module], "classes"))

\* C8: in every extracted module, a function or class is listed if and only
\* if its name does not start with '_' or its name is in the module's
\* __all__; functions are listed under functions, classes under classes.
C8_VisibilityRule ==
    pc = "returned" =>
        \A path \in DOMAIN package :
            ModuleName(path) \in DOMAIN api_data =>
                \A n \in Names :
                    LET kind == package[path].defs[n]
                        public == \/ n[1] # "_"
                                  \/ n \in package[path].all
                    IN  /\ n \in FunctionNames(api_data, ModuleName(path)) <=>
                             (kind \in {"function", "asyncfunction"} /\ public)
                        /\ n \in ClassNames(api_data, ModuleName(path)) <=>
                             (kind = "class" /\ public)

\* the same module keys and, per module, the same function and class names
SameApi(a, b) ==
    /\ DOMAIN a = DOMAIN b
    /\ \A m \in DOMAIN a :
         /\ FunctionNames(a, m) = FunctionNames(b, m)
         /\ ClassNames(a, m) = ClassNames(b, m)

OtherStrategy == IF strategy = "static" THEN "dynamic" ELSE "static"

\* C9: the mapping one strategy returns for a package has the same module
\* keys and, per module, the same public function and class names as the
\* mapping the other strategy returns for that package.
C9_Interchangeable ==
    pc = "returned" =>
        SameApi(api_data, ExtractAll(OtherStrategy, package, DOMAIN package))

\* C10: every key of the mapping extract_module_api builds has at least
\* one public function or class; a module without any has no key.
C10_NoEmptyModule ==
    \A m \in DOMAIN api_data :
        FunctionNames(api_data, m) \cup ClassNames(api_data, m) # {}

\* C12: no key of the mapping extract_module_api builds is a module name
\* that starts with an underscore.
C12_NoUnderscoreModule ==
    \A m \in DOMAIN api_data : ~StartsWith(m, <<"_">>)

\* the faults a claim about syntax errors and import errors speaks of
NamedFaults == {"none", "SyntaxError", "ImportError"}

\* the files on which the running strategy fails: reading them raises
Failing ==
    {path \in DOMAIN package :
        /\ ~SkippedByName(strategy, path)
        /\ RaisedBy(strategy, package[path]) # "none"}

ListsOf(module_data) ==
    {GetList(module_data, "functions"), GetList(module_data, "classes")}

\* ascending by name
Ascending(list) ==
    \A i, j \in 1..Len(list) : i < j => ~StrLess(list[j].name, list[i].name)

\* the package with the definitions of every file in another order
Reordered ==
    UNION { { [package EXCEPT ![path].order = o] :
                o \in Orders(Defined(package[path].defs)) } :
            path \in DOMAIN package }

Rendered(content, r) ==
    \E k \in 1..(Len(content) - 1) :
        /\ content[k] = Line("###", r.signature, "")
        /\ content[k + 1] = Line("text", <<>>, r.docstring)

\* C14 as stated: the docstring field of every extracted record is neither
\* None nor empty, it is the placeholder when the definition has no
\* docstring or an empty one, and the Markdown file of the module shows that
\* field.
C14_Original ==
    \A path \in DOMAIN package :
        LET m == ModuleName(path)
        IN  m \in DOMAIN api_data =>
              \A list \in ListsOf(api_data[m]) :
                \A i \in 1..Len(list) :
                    /\ list[i].docstring \notin {None, ""}
                    /\ package[path].docs[list[i].name] \in {None, ""} =>
                         list[i].docstring = "No description available."
                    /\ MdName(m) \in DOMAIN out_dir.files =>
                         Rendered(out_dir.files[MdName(m)], list[i])

\* the dynamic strategy finds the docstring of a base class for the name
FromBase(path, n) ==
    /\ strategy = "dynamic"
    /\ package[path].docs[n] = None
    /\ n \in package[path].inherits

\* C14: the docstring field of every extracted record is neither None nor
\* empty; when the definition has no docstring or an empty one it is the
\* placeholder, unless the dynamic strategy finds the docstring of a base
\* class, which it then is; the Markdown file of the module shows the field.
C14_DocstringPlaceholder ==
    \A path \in DOMAIN package :
        LET m == ModuleName(path)
        IN  m \in DOMAIN api_data =>
              \A list \in ListsOf(api_data[m]) :
                \A i \in 1..Len(list) :
                    /\ list[i].docstring \notin {None, ""}
                    /\ package[path].docs[list[i].name] \in {None, ""} =>
                         list[i].docstring =
                           IF FromBase(path, list[i].name)
                             THEN "Base of it."
                             ELSE "No description available."
                    /\ MdName(m) \in DOMAIN out_dir.files =>
                         Rendered(out_dir.files[MdName(m)], list[i])

\* C14 happens: the Markdown file of a module is written and shows the
\* placeholder for a definition with an empty docstring and for one with none
C14_Witness ==
    \E path \in DOMAIN package :
        LET m == ModuleName(path)
        IN  /\ m \in DOMAIN api_data
            /\ MdName(m) \in DOMAIN out_dir.files
            /\ \A none \in {None, ""} :
                 \E list \in ListsOf(api_data[m]) :
                   \E i \in 1..Len(list) :
                     /\ package[path].docs[list[i].name] = none
                     /\ Rendered(out_dir.files[MdName(m)], list[i])

\* the lines of `content` of one kind
LinesOf(content, kind) == SelectSeq(content, LAMBDA l : l.line = kind)

\* where the line is in the file, 0 when it is not there
Position(content, l) ==
    IF \E k \in 1..Len(content) : content[k] = l
      THEN CHOOSE k \in 1..Len(content) : content[k] = l
      ELSE 0

\* the layout of the Markdown file of a module
Layout(content, m, functions, classes) ==
    LET C == Position(content, Line("##", <<"Classes">>, ""))
        F == Position(content, Line("##", <<"Functions">>, ""))
        symbols == classes \o functions
    IN  /\ content[1] = Line("# Module", m, "")
        /\ Len(LinesOf(content, "# Module")) = 1
        /\ Len(LinesOf(content, "##")) =
             (IF classes # <<>> THEN 1 ELSE 0)
             + (IF functions # <<>> THEN 1 ELSE 0)
        /\ C # 0 <=> classes # <<>>
        /\ F # 0 <=> functions # <<>>
        /\ (C # 0 /\ F # 0) => C < F
        /\ Len(content) = 1 + Len(LinesOf(content, "##")) + 2 * Len(symbols)
        /\ \A i \in 1..Len(symbols) :
             LET k == IF i <= Len(classes) THEN C + 2 * i - 1
                      ELSE F + 2 * (i - Len(classes)) - 1
             IN  /\ content[k] = Line("###", symbols[i].signature, "")
                 /\ content[k + 1] = Line("text", <<>>, symbols[i].docstring)

\* C15: the Markdown file of an extracted module has the module heading,
\* a Classes section exactly when there are classes, then a Functions
\* section exactly when there are functions, and under each one "###"
\* subsection per record in list order, signature before docstring; a module
\* with two empty lists has no file.
C15_MarkdownLayout ==
    \A m \in DOMAIN api_data :
        LET functions == GetList(api_data[m], "functions")
            classes == GetList(api_data[m], "classes")
        IN  IF functions = <<>> /\ classes = <<>>
              THEN MdName(m) \notin DOMAIN out_dir.files
              ELSE MdName(m) \in DOMAIN out_dir.files =>
                     Layout(out_dir.files[MdName(m)], m, functions, classes)

\* C15 happens: write_markdown_docs has written the file of a module that
\* has a class and two functions
C15_Witness ==
    /\ docs_call.fn = "write_markdown_docs"
    /\ \E m \in DOMAIN api_data :
         /\ MdName(m) \in DOMAIN out_dir.files
         /\ Len(GetList(api_data[m], "functions")) >= 2
         /\ Len(GetList(api_data[m], "classes")) >= 1

\* C15 also happens: write_markdown_docs has passed over a module that has
\* a key and two empty lists
EmptyModulePassedOver ==
    /\ docs_call.fn = "write_markdown_docs"
    /\ \E m \in DOMAIN api_data :
         /\ ListsOf(api_data[m]) = {<<>>}
         /\ MdName(m) \notin DOMAIN out_dir.files

\* the names on the "-" lines from line k of the file on, up to the next
\* line of another kind
RECURSIVE ItemsFrom(_, _)
ItemsFrom(content, k) ==
    IF k > Len(content) THEN <<>>
    ELSE IF content[k].line # "-" THEN <<>>
    ELSE <<content[k].text>> \o ItemsFrom(content, k + 1)

\* the file maps each module that has function names to the list of them,
\* and holds nothing else
FunctionNamesOnly(content) ==
    /\ \A k \in 1..Len(content) : content[k].line \in {"key", "-"}
    /\ \A k \in 1..Len(content) :
         content[k].line = "key" =>
           /\ content[k].text \in DOMAIN api_data
           /\ ItemsFrom(content, k + 1) # <<>>
           /\ ItemsFrom(content, k + 1) =
                NamesOf(GetList(api_data[content[k].text], "functions"))
    /\ \A m \in DOMAIN api_data :
         GetList(api_data[m], "functions") # <<>> =>
           Len(SelectSeq(content, LAMBDA l : l = Line("key", m, ""))) = 1

\* C16: an API.yaml that a documentation call wrote maps each module with
\* function names to the list of these names and holds nothing else: no
\* class name, no module without function names; when no module has a
\* function name, no API.yaml is written.
C16_YamlSummary ==
    (/\ YamlName \in DOMAIN out_dir.files
     /\ out_dir.files[YamlName] # StaleDir.files[YamlName]) =>
        /\ FunctionNamesOnly(out_dir.files[YamlName])
        /\ \E m \in DOMAIN api_data : GetList(api_data[m], "functions") # <<>>

\* C17: a run of write_markdown_docs or of write_yaml_summary on a
\* directory on which it has already run with the same mapping, and to
\* which nothing else has written since, leaves every file as it is and adds
\* none.
C17_Idempotent ==
    [][\A f \in DOMAIN ran :
          (ran[f] >= 1 /\ ran'[f] = ran[f] + 1) => out_dir' = out_dir]_vars

\* C17 happens: both renderers have run twice and their files are there
C17_Witness ==
    /\ ran["write_markdown_docs"] >= 2
    /\ ran["write_yaml_summary"] >= 2
    /\ YamlName \in DOMAIN out_dir.files
    /\ out_dir.files[YamlName] # StaleDir.files[YamlName]
    /\ \E m \in DOMAIN api_data :
         /\ MdName(m) \in DOMAIN out_dir.files
         /\ out_dir.files[MdName(m)] # StaleDir.files[MdName(<<"m">>)]

(***************************************************************************)
(* Properties of the site configuration and of documentation generation.   *)
(***************************************************************************)
\* the call made last wrote the site configuration
WroteNav == docs_call.fn \in {"generate_mkdocs_config", "publish_api_docs"}

\* C18: when the API directory is missing or has no .md file, a call that
\* generates the navigation does not return normally and no site
\* configuration is written.
C18_EmptyNavFails ==
    (/\ WroteNav
     /\ docs_call.include_api_nav
     /\ (~out_dir.exists \/ MdFiles(out_dir) = {})) =>
        /\ docs_call.result # "returned"
        /\ ~site.written

\* the title of the entry of a file: its stem, underscores replaced by
\* spaces, title-cased
TitleOf(name) ==
    CASE name = <<"m", ".", "m", "d">> -> <<"M">>
      [] name = <<"m", "_", "p", ".", "m", "d">> -> <<"M", " ", "P">>
      [] name = <<"_", "p", ".", "m", "d">> -> <<" ", "P">>
      [] name = <<"p", ".", "m", ".", "m", "d">> -> <<"P", ".", "M">>

\* the file an entry of the API block points to
FileOf(entry) == SubSeq(entry.target, 5, Len(entry.target))

\* the entries are one per .md file of the directory, in the order of the
\* file names, each with the title of its file and the file's path from the
\* source root as target
OnePerFile(items, dir) ==
    /\ Len(items) = Cardinality(MdFiles(dir))
    /\ \A i \in 1..Len(items) :
         /\ FileOf(items[i]) \in MdFiles(dir)
         /\ items[i].target = <<"a", "p", "i", "/">> \o FileOf(items[i])
         /\ items[i].title = TitleOf(FileOf(items[i]))
         /\ items[i].items = <<>>
    /\ \A i, j \in 1..Len(items) :
         i < j => StrLess(FileOf(items[i]), FileOf(items[j]))

\* nav[2] is the API Reference block of the directory
HasApiBlock(nav, dir) ==
    /\ Len(nav) >= 2
    /\ nav[2].title = <<"API Reference">>
    /\ nav[2].target = <<>>
    /\ OnePerFile(nav[2].items, dir)

\* C19 as stated: the nav has Home first, then the API Reference block with
\* one entry per .md file of the API directory, then the custom entries.
C19_Original ==
    WroteNav =>
        /\ site.nav[1] = NavEntry(<<"Home">>, <<"index.md">>, <<>>)
        /\ HasApiBlock(site.nav, out_dir)
        /\ SubSeq(site.nav, 3, Len(site.nav)) = docs_call.custom_nav

\* the call asked for the API navigation and there are .md files below the
\* source root to list
FilesToList ==
    /\ docs_call.include_api_nav
    /\ docs_call.under_root
    /\ out_dir.exists
    /\ MdFiles(out_dir) # {}

\* the custom entries are the last entries of the nav
CustomLast(nav, custom_nav) ==
    /\ Len(nav) >= Len(custom_nav)
    /\ SubSeq(nav, Len(nav) - Len(custom_nav) + 1, Len(nav)) = custom_nav

\* C19: the nav has Home first and the custom entries last; when the API
\* navigation is asked for and the API directory has .md files below the
\* source root, the API Reference block stands between them, with one entry
\* per file in the order of the file names, titled and targeted as stated;
\* when the API navigation is not asked for, or the .md files are not below
\* the source root, nothing stands between them.
C19_NavOrder ==
    WroteNav =>
        /\ site.nav[1] = NavEntry(<<"Home">>, <<"index.md">>, <<>>)
        /\ CustomLast(site.nav, docs_call.custom_nav)
        /\ FilesToList =>
              /\ HasApiBlock(site.nav, out_dir)
              /\ Len(site.nav) = 2 + Len(docs_call.custom_nav)
        /\ (\/ ~docs_call.include_api_nav
            \/ (out_dir.exists /\ MdFiles(out_dir) # {} /\ ~docs_call.under_root)) =>
              Len(site.nav) = 1 + Len(docs_call.custom_nav)

\* C19 happens: a nav is written with a block of three files and a custom
\* entry
C19_Witness ==
    /\ docs_call.fn = "generate_mkdocs_config"
    /\ FilesToList
    /\ Cardinality(MdFiles(out_dir)) >= 3
    /\ docs_call.custom_nav # <<>>
    /\ Len(site.nav) = 3

\* the extraction found no public function and no public class
NoPublicApi ==
    \A m \in DOMAIN api_data : ListsOf(api_data[m]) = {<<>>}

\* C20: when the extraction found no public API, generate_docs does not
\* return normally, and publish_api_docs neither returns normally nor logs
\* that the documentation was published.
C20_NoApiFails ==
    (/\ docs_call.fn \in {"docs_api_config.generate_docs", "publish_api_docs"}
     /\ NoPublicApi) =>
        /\ docs_call.result # "returned"
        /\ "INFO API documentation published successfully." \notin docs_call.log

(***************************************************************************)
(* Version compatibility (civic_lib_core/version_utils.py).  A version is  *)
(* a text; the numbers of a parsed version are natural numbers.            *)
(***************************************************************************)
DigitValue ==
    [c \in {"0", "1", "2", "3", "9"} |->
        CASE c = "0" -> 0 [] c = "1" -> 1 [] c = "2" -> 2 [] c = "3" -> 3
          [] c = "9" -> 9]

\* \d
IsDigit(c) == c \in DOMAIN DigitValue

\* \d+ at position i of the text: how many characters it takes (greedy)
RECURSIVE DigitRun(_, _)
DigitRun(text, i) ==
    IF i <= Len(text) /\ IsDigit(text[i]) THEN 1 + DigitRun(text, i + 1) ELSE 0

\* int() of a text of digits
RECURSIVE ToInt(_)
ToInt(digits) ==
    IF digits = <<>> THEN 0
    ELSE 10 * ToInt(SubSeq(digits, 1, Len(digits) - 1))
         + DigitValue[digits[Len(digits)]]

\* \. at position i of the text
DotAt(text, i) == i <= Len(text) /\ text[i] = "."

\* re.match(r"(\d+)\.(\d+)\.(\d+)", version): the three groups of a match
\* at the start of the text, or no match; what follows the third group is
\* not looked at
ReMatch(version) ==
    LET a == DigitRun(version, 1)
        b == DigitRun(version, a + 2)
        c == DigitRun(version, a + b + 3)
    IN  IF /\ a > 0
           /\ DotAt(version, a + 1)
           /\ b > 0
           /\ DotAt(version, a + b + 2)
           /\ c > 0
          THEN [matched |-> TRUE,
                groups |-> << SubSeq(version, 1, a),
                              SubSeq(version, a + 2, a + b + 1),
                              SubSeq(version, a + b + 3, a + b + c + 2) >>]
          ELSE [matched |-> FALSE, groups |-> <<>>]

\* parse_version(version): the tuple it returns, or the ValueError it raises
ParseVersion(version) ==
    LET match == ReMatch(version)
    IN  IF ~match.matched
          THEN [NoVersionOut EXCEPT !.kind = "raised ValueError"]
          ELSE [NoVersionOut EXCEPT
                  !.kind = "returned",
                  !.value = << ToInt(match.groups[1]), ToInt(match.groups[2]),
                               ToInt(match.groups[3]) >>]

\* a mutant: the non-strict check compares the minor numbers too
SameMajorAndMinor(agent, lib) == agent[1] = lib[1] /\ agent[2] = lib[2]

\* agent_major != lib_major, negated
SameMajor(agent, lib) == agent[1] = lib[1]

\* check_version(agent_version, lib_version, strict)
CheckVersion(agent, lib, exact) ==
    LET a == ParseVersion(agent)
        l == ParseVersion(lib)
    IN  IF a.kind # "returned" \/ l.kind # "returned"
          THEN [NoVersionOut EXCEPT !.kind = "returned", !.compatible = FALSE,
                                    !.log = {"WARNING Invalid version format"}]
        ELSE IF exact
          THEN IF a.value # l.value
                 THEN [NoVersionOut EXCEPT !.kind = "returned",
                                           !.compatible = FALSE,
                                           !.log = {"WARNING Strict version mismatch"}]
                 ELSE [NoVersionOut EXCEPT !.kind = "returned",
                                           !.compatible = TRUE]
        ELSE IF ~SameMajor(a.value, l.value)
          THEN [NoVersionOut EXCEPT !.kind = "returned", !.compatible = FALSE,
                                    !.log = {"WARNING Major version mismatch"}]
        ELSE [NoVersionOut EXCEPT !.kind = "returned", !.compatible = TRUE]

\* the version texts tried
VersionTexts ==
    { <<"1", ".", "2", ".", "3">>, <<"1", ".", "0", ".", "0">>,
      <<"2", ".", "0", ".", "0">>, <<"1", ".", "9", ".", "9">>,
      <<"1", ".", "2", ".", "9">>, <<"0", "1", ".", "2", ".", "3">>,
      <<"1", "0", ".", "0", ".", "0">>, <<"1", ".", "2">>,
      <<"1", ".", ".", "3">>, <<"v", "1", ".", "2", ".", "3">>,
      <<"1", ".", "2", ".", "3", "-", "r", "c">>,
      <<"1", ".", "2", ".", "3", ".", "9">>, <<>> }

\* version_utils.check_version(agent_version, lib_version, strict)
CallCheckVersion ==
    /\ version_out.kind = "none"
    /\ version_out' = [CheckVersion(agent_version, lib_version, strict)
                          EXCEPT !.fn = "check_version"]
    /\ UNCHANGED <<agent_version, lib_version, strict>>
    /\ UNCHANGED coreVars
    /\ UNCHANGED logVars
    /\ UNCHANGED cliVars
    /\ UNCHANGED reportVars
    /\ UNCHANGED policyVars
    /\ UNCHANGED publishVars
    /\ UNCHANGED mkdocsVars

\* version_utils.parse_version(version)
CallParseVersion ==
    /\ version_out.kind = "none"
    /\ version_out' = [ParseVersion(agent_version)
                          EXCEPT !.fn = "parse_version"]
    /\ UNCHANGED <<agent_version, lib_version, strict>>
    /\ UNCHANGED coreVars
    /\ UNCHANGED logVars
    /\ UNCHANGED cliVars
    /\ UNCHANGED reportVars
    /\ UNCHANGED policyVars
    /\ UNCHANGED publishVars
    /\ UNCHANGED mkdocsVars

NextVersion ==
    \/ CallCheckVersion
    \/ CallParseVersion

CoreIdle == FetchIdle /\ ExtractIdle /\ DocsIdle

InitVersion ==
    /\ CoreIdle
    /\ LogIdle
    /\ CliIdle
    /\ agent_version \in VersionTexts
    /\ lib_version \in VersionTexts
    /\ strict \in BOOLEAN
    /\ version_out = NoVersionOut
    /\ ReportIdle
    /\ PolicyIdle
    /\ PublishIdle
    /\ MkdocsIdle

SpecVersion == InitVersion /\ [][NextVersion]_vars

\* the places i, j, k where the major, the minor and the patch number of a
\* text end, when it starts with digits, a dot, digits, a dot and digits
NumberEnds(text) ==
    { e \in (1..Len(text)) \X (1..Len(text)) \X (1..Len(text)) :
        /\ e[1] + 2 <= e[2]
        /\ e[2] + 2 <= e[3]
        /\ \A p \in 1..e[3] :
             IF p \in {e[1] + 1, e[2] + 1} THEN text[p] = "."
             ELSE IsDigit(text[p])
        /\ e[3] = Len(text) \/ ~IsDigit(text[e[3] + 1]) }

\* the text starts with major.minor.patch
Parses(text) == NumberEnds(text) # {}

\* the numbers of a text that parses
NumbersOf(text) ==
    LET e == CHOOSE x \in NumberEnds(text) : TRUE
    IN  << ToInt(SubSeq(text, 1, e[1])),
           ToInt(SubSeq(text, e[1] + 2, e[2])),
           ToInt(SubSeq(text, e[2] + 2, e[3])) >>

\* C21: check_version returns, never raises, and returns True exactly when
\* both versions parse and their major numbers are equal (strict: all three
\* numbers are equal).
C21_CheckVersion ==
    version_out.fn = "check_version" =>
        /\ version_out.kind = "returned"
        /\ version_out.compatible <=>
              /\ Parses(agent_version)
              /\ Parses(lib_version)
              /\ IF strict
                   THEN NumbersOf(agent_version) = NumbersOf(lib_version)
                   ELSE NumbersOf(agent_version)[1] = NumbersOf(lib_version)[1]

\* C21 happens: versions of one major number that differ in minor and patch
\* are found compatible, and a version that does not parse is not
C21_Witness ==
    /\ version_out.fn = "check_version"
    /\ ~strict
    /\ agent_version = <<"1", ".", "2", ".", "3">>
    /\ lib_version = <<"1", ".", "0", ".", "0">>
    /\ version_out.compatible

(***************************************************************************)
(* Logging (civic_lib_core/log_utils.py).                                  *)
(***************************************************************************)
\* the levels loguru knows
LoguruLevels ==
    {"TRACE", "DEBUG", "INFO", "SUCCESS", "WARNING", "ERROR", "CRITICAL"}

\* the log_level arguments tried, and the levels a policy may name
LogLevelArgs == {None, "", "INFO", "debug", " warning ", "LOUD"}
PolicyLevels == {"INFO", "ERROR"}

\* what may go wrong between logger.remove() and the first logger.add():
\* no project root is found, or a policy file is malformed
LayoutFaults == {"none", "RuntimeError", "YAMLError"}

\* .upper().strip()
UpperStrip(text) ==
    CASE text = "debug" -> "DEBUG"
      [] text = " warning " -> "WARNING"
      [] OTHER -> text

\* level = (log_level or "INFO").upper().strip(), log_level taken from the
\* policy when it is None
LevelOf(log_level, policy_level) ==
    LET given == IF log_level = None THEN policy_level ELSE log_level
    IN  UpperStrip(IF given = "" THEN "INFO" ELSE given)

\* a mutant: the guard of init_logger is never set
NeverInitialized(kind) == FALSE

\* _logger_initialized after a call that ended this way
Initialized(kind) == kind = "returned"

\* init_logger(log_level, log_to_console) when not yet initialized: how it
\* ends and the handlers it leaves
InitLogger(log_level, log_to_console, policy_level, fault) ==
    LET level == LevelOf(log_level, policy_level)
    IN  IF fault # "none"
          THEN [kind |-> "raised " \o fault, handlers |-> <<>>]
        ELSE IF level \notin LoguruLevels
          THEN [kind |-> "raised ValueError", handlers |-> <<>>]
        ELSE [kind |-> "returned",
              handlers |->
                << Handler("file", level, "init_logger") >>
                \o (IF log_to_console
                      THEN << Handler("stderr", level, "init_logger") >>
                      ELSE <<>>)]

\* log_utils.init_logger(log_level, log_to_console)
CallInitLogger ==
    \E log_level \in LogLevelArgs, log_to_console \in BOOLEAN,
       policy_level \in PolicyLevels, fault \in LayoutFaults :
        LET done == InitLogger(log_level, log_to_console, policy_level, fault)
            call == [fn |-> "init_logger", log_level |-> log_level,
                     log_to_console |-> log_to_console, kind |-> "returned"]
        IN  /\ IF logger_initialized
                 THEN /\ log_call' = call
                      /\ UNCHANGED <<logger_initialized, handlers>>
                 ELSE /\ log_call' = [call EXCEPT !.kind = done.kind]
                      /\ handlers' = done.handlers
                      /\ logger_initialized' = Initialized(done.kind)
            /\ UNCHANGED coreVars
            /\ UNCHANGED versionVars
            /\ UNCHANGED cliVars
            /\ UNCHANGED reportVars
            /\ UNCHANGED policyVars
            /\ UNCHANGED publishVars
            /\ UNCHANGED mkdocsVars

\* other code registers a handler of its own with logger.add
CallLoggerAdd ==
    /\ Len(handlers) < 3
    /\ handlers' = Append(handlers, Handler("other", "INFO", "other"))
    /\ UNCHANGED <<logger_initialized, log_call>>
    /\ UNCHANGED coreVars
    /\ UNCHANGED versionVars
    /\ UNCHANGED cliVars
    /\ UNCHANGED reportVars
    /\ UNCHANGED policyVars
    /\ UNCHANGED publishVars
    /\ UNCHANGED mkdocsVars

NextLog ==
    \/ CallInitLogger
    \/ CallLoggerAdd

InitLog ==
    /\ CoreIdle
    /\ VersionIdle
    /\ LogIdle
    /\ CliIdle
    /\ ReportIdle
    /\ PolicyIdle
    /\ PublishIdle
    /\ MkdocsIdle

SpecLog == InitLog /\ [][NextLog]_vars

\* the handlers init_logger registered with this sink
SinksOf(sink) ==
    { i \in 1..Len(handlers) :
        handlers[i].by = "init_logger" /\ handlers[i].sink = sink }

\* init_logger registered at most one file sink and one console sink, and
\* none before a call of it completed
OnceOnly ==
    /\ Cardinality(SinksOf("file")) <= 1
    /\ Cardinality(SinksOf("stderr")) <= 1
    /\ ~logger_initialized => SinksOf("file") \cup SinksOf("stderr") = {}
    /\ logger_initialized => Cardinality(SinksOf("file")) = 1

\* C22 as stated: at most one file sink and one console sink come from
\* init_logger, added by the first call that completed, and until a call
\* completed the handlers that existed before are still registered.
C22_Original ==
    /\ OnceOnly
    /\ ~logger_initialized => (Len(handlers) >= 1 /\ handlers[1] = DefaultHandler)

\* C22: at most one file sink and one console sink come from init_logger,
\* added by the first call that completed; once a call completed, no call
\* removes or changes a handler or resets the guard.  (A call that fails
\* has removed the handlers that existed before and added none.)
C22_InitializedOnce ==
    /\ []OnceOnly
    /\ [][logger_initialized =>
            /\ logger_initialized'
            /\ Len(handlers') >= Len(handlers)
            /\ SubSeq(handlers', 1, Len(handlers)) = handlers]_vars
    /\ [](log_call.kind \notin {"none", "returned"} =>
            \A i \in 1..Len(handlers) : handlers[i].by = "other")

\* C22 happens: after a call completed, a later call with a level that
\* loguru does not know has returned and the two sinks are still there
C22_Witness ==
    /\ logger_initialized
    /\ log_call.log_level = "LOUD"
    /\ log_call.kind = "returned"
    /\ Cardinality(SinksOf("file")) = 1
    /\ Cardinality(SinksOf("stderr")) = 1

(***************************************************************************)
(* The civic-dev commands (civic_dev/cli.py, prep_code.py, publish_api.py, *)
(* release.py).  A command is a list of steps; a step names what runs and  *)
(* what a failure of it leads to:                                          *)
(*   "typer.Exit(rc)"      release.run with check=True                     *)
(*   "CalledProcessError"  prep_code.run_check, install_deps.run           *)
(*   "sys.exit(1)"         install_deps.verify_venv                        *)
(*   "raise"               an exception nothing catches                    *)
(*   "return None"         publish_api.main: logged, then it returns       *)
(*   "continue"            release.run with check=False: ignored           *)
(* A step of kind "probe" has the return code the directory decides, one   *)
(* of kind "exit" ends the command, one of kind "raises" always fails.     *)
(***************************************************************************)
CliStepOf(cmd, kind, on_fail) == [cmd |-> cmd, kind |-> kind, on_fail |-> on_fail]

\* release.run(cmd, check)
RunOf(cmd, check) ==
    CliStepOf(cmd, "run", IF check THEN "typer.Exit(rc)" ELSE "continue")

\* prep_code.run_check(command, label)
RunCheck(cmd) == CliStepOf(cmd, "run", "CalledProcessError")

\* release.main for the tag v<version>
ReleaseSteps(e) ==
    IF ~e.version_file
      THEN << CliStepOf("VERSION file not found.", "exit", "typer.Exit(rc)") >>
      ELSE << RunOf("pre-commit autoupdate", TRUE) >>
           \o (IF e.pyproject THEN << RunOf("python -m pip install -e .", TRUE) >>
                ELSE <<>>)
           \o << RunOf("ruff format .", TRUE),
                 RunOf("ruff check . --fix", TRUE),
                 CliStepOf("publish_api_docs()", "run", "raise"),
                 RunOf("pre-commit run --all-files", FALSE),
                 RunOf("git add .", TRUE),
                 RunOf("pre-commit run --all-files", FALSE),
                 RunOf("git add .", TRUE),
                 RunOf("pre-commit run --all-files", TRUE) >>
           \o (IF e.tests THEN << RunOf("pytest", TRUE) >> ELSE <<>>)
           \o << RunOf("git add .", TRUE),
                 CliStepOf("git diff --cached --quiet", "probe", "continue") >>
           \o (IF e.diff = 1
                 THEN << RunOf("git commit -m Release: tag", TRUE),
                         RunOf("git push origin main", TRUE) >>
                 ELSE <<>>)
           \o << CliStepOf("git tag --list tag", "probe", "continue") >>
           \o (IF e.tag_exists
                 THEN << CliStepOf("Error: Tag already exists.", "exit",
                              "typer.Exit(rc)") >>
                 ELSE << RunOf("git tag tag", TRUE),
                         RunOf("git push origin tag", TRUE) >>)

\* prep_code.main
PrepCodeSteps ==
    << CliStepOf("install_deps.verify_venv()", "run", "sys.exit(1)"),
       RunCheck("pip install"),
       RunCheck("ruff format ."),
       RunCheck("ruff check . --fix"),
       RunCheck("pre-commit run --all-files"),
       RunCheck("pre-commit run --all-files"),
       RunCheck("pytest tests") >>

\* publish_api.main; its generate_mkdocs_config call passes output_dir where
\* the policy dict is expected, and policy.get raises AttributeError
PublishApiSteps ==
    << CliStepOf("fs_utils.find_project_root()", "run", "return None"),
       CliStepOf("src_dir.exists()", "run", "return None"),
       CliStepOf("fs_utils.get_repo_package_names(root_dir)", "run", "return None"),
       CliStepOf("docs_api_extract.extract_module_api(pkg_path)", "run", "return None"),
       CliStepOf("docs_api_render.write_markdown_docs", "run", "return None"),
       CliStepOf("docs_api_render.write_yaml_summary", "run", "return None"),
       CliStepOf("docs_api_config.generate_mkdocs_config", "raises", "return None"),
       CliStepOf("docs_api_config.write_index_md(docs_dir)", "run", "return None") >>

Commands == {"prep-code", "publish-api", "release"}

StepsOf(c, e) ==
    CASE c = "release" -> ReleaseSteps(e)
      [] c = "prep-code" -> PrepCodeSteps
      [] c = "publish-api" -> PublishApiSteps

\* the return codes a subprocess or a call may end with (a call: 0 when it
\* returns, 1 when it raises)
ReturnCodes == {0, 1, 2}

\* the return codes a step may end with
CodesOf(step, e) ==
    CASE step.kind = "probe" ->
           IF step.cmd = "git diff --cached --quiet" THEN {e.diff}
           ELSE {0}
      [] step.kind \in {"exit", "raises"} -> {1}
      [] step.on_fail \in {"raise", "return None", "sys.exit(1)"} -> {0, 1}
      [] OTHER -> ReturnCodes

\* a mutant: no failure ends the command
EndsNever(step, rc) == FALSE

\* the step ends the command: it failed and its failure is not ignored
Ends(step, rc) == rc # 0 /\ step.on_fail # "continue"

\* the exit code of the civic-dev process when a step ended the command:
\* prepare_code drops what prep_code.main returns, publish_api.main returns
\* None, an uncaught exception exits with 1
ExitCodeOf(step, rc) ==
    CASE step.on_fail = "typer.Exit(rc)" -> rc
      [] step.on_fail = "sys.exit(1)" -> 1
      [] step.on_fail = "raise" -> 1
      [] step.on_fail = "CalledProcessError" -> 0
      [] step.on_fail = "return None" -> 0

\* the directories a release may run in
Envs ==
    [version_file : BOOLEAN, pyproject : BOOLEAN, tests : BOOLEAN,
     diff : {0, 1, 128}, tag_exists : BOOLEAN]

\* civic-dev <command>
CliStart ==
    /\ cli_pc = 0
    /\ \E c \in Commands, e \in Envs :
         /\ c # "release" => e = [NoEnv EXCEPT !.version_file = TRUE]
         /\ command' = c
         /\ env' = e
    /\ cli_pc' = 1
    /\ UNCHANGED <<steps_run, exit_code>>
    /\ UNCHANGED coreVars
    /\ UNCHANGED versionVars
    /\ UNCHANGED logVars
    /\ UNCHANGED reportVars
    /\ UNCHANGED policyVars
    /\ UNCHANGED publishVars
    /\ UNCHANGED mkdocsVars

\* the next step of the command runs and ends with a return code
CliStep ==
    /\ cli_pc >= 1
    /\ exit_code = -1
    /\ LET steps == StepsOf(command, env)
           step == steps[cli_pc]
       IN  \E rc \in CodesOf(step, env) :
             /\ steps_run' = Append(steps_run, [step |-> step, rc |-> rc])
             /\ cli_pc' = cli_pc + 1
             /\ exit_code' =
                  IF Ends(step, rc) THEN ExitCodeOf(step, rc)
                  ELSE IF cli_pc = Len(steps) THEN 0
                  ELSE -1
    /\ UNCHANGED <<command, env>>
    /\ UNCHANGED coreVars
    /\ UNCHANGED versionVars
    /\ UNCHANGED logVars
    /\ UNCHANGED reportVars
    /\ UNCHANGED policyVars
    /\ UNCHANGED publishVars
    /\ UNCHANGED mkdocsVars

NextCli ==
    \/ CliStart
    \/ CliStep

InitCli ==
    /\ CoreIdle
    /\ VersionIdle
    /\ LogIdle
    /\ CliIdle
    /\ ReportIdle
    /\ PolicyIdle
    /\ PublishIdle
    /\ MkdocsIdle

SpecCli == InitCli /\ [][NextCli]_vars

\* the step that ran failed, and it is not one whose failure is allowed
Failed(r) == r.rc # 0 /\ r.step.on_fail # "continue"

\* C23: a command exits with code 0 only when none of its steps failed and
\* with a nonzero code when one did; release exits with the code of the
\* subprocess that failed.
C23_ExitCodes ==
    exit_code # -1 =>
        /\ exit_code = 0 <=> \A i \in 1..Len(steps_run) : ~Failed(steps_run[i])
        /\ \A i \in 1..Len(steps_run) :
             (Failed(steps_run[i]) /\ steps_run[i].step.on_fail = "typer.Exit(rc)")
                 => exit_code = steps_run[i].rc

\* the step cmd ran before place i and succeeded
Succeeded(cmd, on_fail, i) ==
    \E j \in 1..(i - 1) :
        /\ steps_run[j].step.cmd = cmd
        /\ steps_run[j].step.on_fail = on_fail
        /\ steps_run[j].rc = 0

\* the step cmd ran
Ran(cmd) == \E j \in 1..Len(steps_run) : steps_run[j].step.cmd = cmd

\* C26: in a release the tag is created only after formatting, linting,
\* API-doc generation, the checked pre-commit run and pytest (when tests/
\* exists) succeeded and after the release commit, if any, was pushed; it
\* is pushed only after it was created; nothing runs after a checked step
\* failed; and when the tag exists already no tag is created or pushed and
\* the command exits with code 1.
C26_TagLast ==
    command = "release" =>
        /\ \A i \in 1..Len(steps_run) :
             steps_run[i].step.cmd = "git tag tag" =>
                /\ Succeeded("ruff format .", "typer.Exit(rc)", i)
                /\ Succeeded("ruff check . --fix", "typer.Exit(rc)", i)
                /\ Succeeded("publish_api_docs()", "raise", i)
                /\ Succeeded("pre-commit run --all-files", "typer.Exit(rc)", i)
                /\ env.tests => Succeeded("pytest", "typer.Exit(rc)", i)
                /\ Ran("git commit -m Release: tag") =>
                      Succeeded("git push origin main", "typer.Exit(rc)", i)
        /\ \A i \in 1..Len(steps_run) :
             steps_run[i].step.cmd = "git push origin tag" =>
                Succeeded("git tag tag", "typer.Exit(rc)", i)
        /\ \A i \in 1..(Len(steps_run) - 1) : ~Failed(steps_run[i])
        /\ env.tag_exists =>
             /\ ~Ran("git tag tag")
             /\ ~Ran("git push origin tag")
             /\ Ran("git tag --list tag") /\ exit_code # -1 => exit_code = 1

\* C26 happens: a release with tests and a release commit has created and
\* pushed its tag
C26_Witness ==
    /\ command = "release"
    /\ env.tests
    /\ Ran("git commit -m Release: tag")
    /\ Ran("git push origin tag")
    /\ exit_code = 0

\* C26 happens as well: the tag exists already and the release has ended
TagExistsAlready ==
    /\ command = "release"
    /\ env.tag_exists
    /\ Ran("git tag --list tag")
    /\ exit_code = 1

(***************************************************************************)
(* Agent reports (civic_lib/report_writer.py) and the formats a caller     *)
(* may ask for.                                                            *)
(***************************************************************************)
\* the result lists an agent may report
ReportData == { <<>>, << "row" >>, << "row", "row" >> }

\* the file_format arguments tried
FileFormats == {"json", "csv", "xml", "JSON", ""}

\* the report of a day, one line per result after a heading
ReportLines(heading, data) ==
    << Line(heading, <<>>, "") >>
    \o [i \in 1..Len(data) |-> Line("result", <<>>, data[i])]

\* write_report(data, agent_name, agent_version, schema_version, report_dir,
\* file_format): how it ends and the agent folder afterwards; the file of a
\* day is named after the format
WriteReport(data, file_format, dir) ==
    LET agent_folder == [exists |-> TRUE, files |-> dir.files]
    IN  IF file_format = "json"
          THEN [kind |-> "returned",
                dir |-> [agent_folder EXCEPT
                           !.files = Put(@, file_format,
                                         ReportLines("json", data))]]
        ELSE IF file_format = "csv"
          THEN [kind |-> "returned",
                dir |-> [agent_folder EXCEPT
                           !.files =
                              Put(@, file_format,
                                  IF data = <<>>
                                    THEN << Line("text", <<>>,
                                                 "No results to export.") >>
                                    ELSE ReportLines("csv", data))]]
        ELSE [kind |-> "raised ValueError", dir |-> agent_folder]

\* report_writer.write_report(...)
CallWriteReport ==
    /\ \E data \in ReportData, file_format \in FileFormats :
         LET done == WriteReport(data, file_format, report_dir)
         IN  /\ report_dir' = done.dir
             /\ report_out' = [file_format |-> file_format, kind |-> done.kind]
    /\ UNCHANGED coreVars
    /\ UNCHANGED versionVars
    /\ UNCHANGED logVars
    /\ UNCHANGED cliVars
    /\ UNCHANGED policyVars
    /\ UNCHANGED publishVars
    /\ UNCHANGED mkdocsVars

NextFormats ==
    \/ NextExtract
    \/ CallGenerateDocs
    \/ CallWriteReport

\* reports and documentation of a package of at most one module
InitFormats ==
    /\ FetchIdle
    /\ package \in SmallPackages
    /\ strategy = "none"
    /\ todo = {}
    /\ api_data = EmptyDict
    /\ DocsIdle
    /\ ToolsIdle

SpecFormats == InitFormats /\ [][NextFormats]_vars

\* the part of C24 that is about write_report: with a format other than
\* json and csv it raises ValueError and writes no report file
WriteReportRaises ==
    report_out.file_format \notin {"none", "json", "csv"} =>
        /\ report_out.kind = "raised ValueError"
        /\ report_out.file_format \notin DOMAIN report_dir.files

\* C24: write_report with a format other than json and csv raises ValueError
\* and writes no report file; generate_docs with a format name other than
\* yaml and markdown raises.
C24_UnsupportedFormat ==
    /\ WriteReportRaises
    /\ (/\ docs_call.fn = "docs_api_config.generate_docs"
        /\ docs_call.formats \ {"yaml", "markdown"} # {}) =>
          docs_call.result # "returned"

\* write_report was given a format it does not support, after a report was
\* written
WriteReportRaised ==
    /\ report_out.file_format = "xml"
    /\ report_dir.exists
    /\ "json" \in DOMAIN report_dir.files

(***************************************************************************)
(* Termination of the fetchers.                                            *)
(***************************************************************************)
\* a fetch that is ready to issue a request does issue it
SpecFetchLive == SpecFetch /\ WF_vars(SendRequest)

\* the response has the record list and a complete pageInfo block where the
\* fetch that is running looks for them by convention
AnswersPage(resp) ==
    LET root == SubSeq(data_path, 1, Len(data_path) - 1)
    IN  /\ ~page_info_path.given
        /\ resp.shape.nulls = {}
        /\ data_path \in resp.shape.keys
        /\ Block(root \o <<"pageInfo">>) \subseteq resp.shape.keys

\* C25: a fetch returns with the response that answers hasNextPage false;
\* after a response that answers hasNextPage true it is about to issue the
\* next request or has issued it, however many pages it has fetched, and a
\* fetch that is about to issue a request does issue it.
C25_Termination ==
    /\ [](  (responses # <<>> /\ AnswersPage(LastResponse)
             /\ ~LastResponse.hasNextPage)
          => (pc = "returned" /\ outcome = Returned(collected)))
    /\ [](  (responses # <<>> /\ AnswersPage(LastResponse)
             /\ LastResponse.hasNextPage)
          => (\/ pc = "request"
              \/ Len(requests) > Len(responses)))
    /\ \A n \in 0..(MaxPages - 1) :
         (pc = "request" /\ Len(requests) = n) ~> (Len(requests) = n + 1)

\* C25 happens: every response so far answered hasNextPage true, and the
\* fetch has issued as many requests as the model follows
C25_Witness ==
    /\ Len(requests) = MaxPages
    /\ Len(responses) = MaxPages - 1
    /\ \A i \in 1..Len(responses) :
         AnswersPage(responses[i]) /\ responses[i].hasNextPage
    /\ pc = "await"

\* C25 happens as well: the third response answered false and the fetch
\* returned the records of all three pages
ReturnedAfterThree ==
    /\ Len(responses) = 3
    /\ AnswersPage(LastResponse)
    /\ ~LastResponse.hasNextPage
    /\ pc = "returned"
    /\ Len(collected) >= 3

\* the response that arrives has no continuation flag where the fetch that
\* is running reads it: the pageInfo block is there without hasNextPage, or,
\* in fetch_paginated, the page is there without a pageInfo block
LacksFlag(resp) ==
    LET page == SubSeq(data_path, 1, Len(data_path) - 1)
        pi == IF page_info_path.given THEN page_info_path.path
              ELSE page \o <<"pageInfo">>
    IN  /\ resp.shape.nulls = {}
        /\ pi \o <<"hasNextPage">> \notin resp.shape.keys
        /\ IF fn = "fetch_paginated"
             THEN page \in resp.shape.keys
             ELSE data_path \in resp.shape.keys /\ pi \in resp.shape.keys

\* the records of the response: its edges as they are for async_paged_query
\* and paged_query, the nodes of its edges (none when the edges are absent)
\* for fetch_paginated
RecordsOf(resp) ==
    IF fn # "fetch_paginated" THEN resp.edges
    ELSE IF data_path \in resp.shape.keys
      THEN [i \in 1..Len(resp.edges) |-> resp.edges[i].node]
    ELSE <<>>

\* a response without the continuation flag is the last page: the fetch
\* returns, without raising, the records accumulated before it followed by
\* the records of that response
FlagAbsentEnds ==
    [][(Len(responses') = Len(responses) + 1
        /\ LacksFlag(responses'[Len(responses')]))
       => /\ pc' = "returned"
          /\ collected' = collected \o RecordsOf(responses'[Len(responses')])
          /\ outcome' = Returned(collected')]_vars

\* in fetch_paginated a page without an edges list is taken as a page
\* without records, and the fetch does not raise
EdgesAbsentIsEmpty ==
    [][(/\ fn = "fetch_paginated"
        /\ Len(responses') = Len(responses) + 1
        /\ responses'[Len(responses')].shape.nulls = {}
        /\ <<"items">> \in responses'[Len(responses')].shape.keys
        /\ data_path \notin responses'[Len(responses')].shape.keys)
       => /\ pc' \in {"returned", "request"}
          /\ collected' = collected]_vars

\* C30: a response without the continuation flag is treated as the last
\* page: the fetch stops without raising and returns the records
\* accumulated so far; in fetch_paginated the pageInfo block may be absent
\* altogether, and so may the edges list, which counts as empty.
C30_MissingFlagEnds == FlagAbsentEnds /\ EdgesAbsentIsEmpty

\* C30 happens: fetch_paginated got a second page that has neither a
\* pageInfo block nor edges and returned the records of the first page
C30_Witness ==
    /\ fn = "fetch_paginated"
    /\ Len(responses) = 2
    /\ LacksFlag(LastResponse)
    /\ data_path \notin LastResponse.shape.keys
    /\ <<"items", "pageInfo">> \notin LastResponse.shape.keys
    /\ pc = "returned"
    /\ collected # <<>>

\* C30 happens as well: async_paged_query got a pageInfo block without the
\* flag and returned
FlagAbsentFromBlock ==
    /\ fn = "async_paged_query"
    /\ responses # <<>>
    /\ LacksFlag(LastResponse)
    /\ pc = "returned"
    /\ collected # <<>>

(***************************************************************************)
(* The project policy (civic_lib_core/project_policy.py).  A value of a    *)
(* policy is a scalar or a dict; both are records of one layout, a dict    *)
(* holding its entries in `items`.                                         *)
(***************************************************************************)
Scalar(v) == [type |-> "scalar", value |-> v, items |-> EmptyDict]
Dict(items) == [type |-> "dict", value |-> "", items |-> items]

\* the dicts with keys among K and values among V
DictsOver(K, V) == UNION { [S -> V] : S \in SUBSET K }

\* the policies tried: log_level and docs at the top, docs a scalar or a
\* dict of two settings
PolicyValues ==
    {Scalar("x"), Scalar("y")}
    \cup { Dict(d) : d \in DictsOver({"site_dir", "api_dir"},
                                      {Scalar("x"), Scalar("y")}) }

Policies == DictsOver({"log_level", "docs"}, PolicyValues)

\* a mutant: the project's entries replace the defaults' at the top only
ShallowMergeDicts(dict1, dict2) == Update(dict1, dict2)

\* _deep_merge_dicts(dict1, dict2)
RECURSIVE DeepMergeDicts(_, _)
DeepMergeDicts(dict1, dict2) ==
    [key \in DOMAIN dict1 \cup DOMAIN dict2 |->
        IF key \notin DOMAIN dict2 THEN dict1[key]
        ELSE IF /\ key \in DOMAIN dict1
                /\ dict1[key].type = "dict"
                /\ dict2[key].type = "dict"
          THEN Dict(DeepMergeDicts(dict1[key].items, dict2[key].items))
        ELSE dict2[key]]

DefaultPolicyPath == Scalar("civic_lib_core/project_policy.yaml")
CustomPolicyPath == Scalar("<project_root>/project_policy.yaml")

\* what load_project_policy may find: the library's file (missing, or
\* holding the defaults), and in the project root no file, an empty file, a
\* malformed one, or one holding the project's policy
DefaultFiles == {"missing", "dict"}
CustomFiles == {"absent", "empty", "dict", "YAMLError"}

\* load_project_policy(project_root)
LoadProjectPolicy(default_file, dict1, given, custom_file, dict2) ==
    LET policy_data == IF default_file = "dict" THEN dict1 ELSE EmptyDict
        custom_data == IF custom_file = "dict" THEN dict2 ELSE EmptyDict
        merged == Put(DeepMergeDicts(policy_data, custom_data),
                      "__policy_path__", CustomPolicyPath)
    IN  IF given /\ custom_file = "YAMLError"
          THEN [kind |-> "raised YAMLError", policy |-> EmptyDict]
        ELSE IF given /\ custom_file # "absent"
          THEN [kind |-> "returned", policy |-> merged]
        ELSE IF "__policy_path__" \in DOMAIN policy_data
          THEN [kind |-> "returned", policy |-> policy_data]
        ELSE [kind |-> "returned",
              policy |-> Put(policy_data, "__policy_path__", DefaultPolicyPath)]

\* project_policy._deep_merge_dicts(dict1, dict2)
CallDeepMergeDicts ==
    /\ policy_out.fn = "none"
    /\ policy_out' = [NoPolicyOut EXCEPT
                        !.fn = "_deep_merge_dicts",
                        !.kind = "returned",
                        !.policy = DeepMergeDicts(defaults, override)]
    /\ UNCHANGED <<defaults, override>>
    /\ UNCHANGED coreVars
    /\ UNCHANGED versionVars
    /\ UNCHANGED logVars
    /\ UNCHANGED cliVars
    /\ UNCHANGED reportVars
    /\ UNCHANGED publishVars
    /\ UNCHANGED mkdocsVars

\* project_policy.load_project_policy(project_root)
CallLoadProjectPolicy ==
    /\ policy_out.fn = "none"
    /\ \E default_file \in DefaultFiles, given \in BOOLEAN,
          custom_file \in CustomFiles :
         LET done == LoadProjectPolicy(default_file, defaults, given,
                                       custom_file, override)
         IN  policy_out' = [fn |-> "load_project_policy",
                            kind |-> done.kind,
                            policy |-> done.policy,
                            default_file |-> default_file,
                            project_root |-> given,
                            custom_file |-> custom_file]
    /\ UNCHANGED <<defaults, override>>
    /\ UNCHANGED coreVars
    /\ UNCHANGED versionVars
    /\ UNCHANGED logVars
    /\ UNCHANGED cliVars
    /\ UNCHANGED reportVars
    /\ UNCHANGED publishVars
    /\ UNCHANGED mkdocsVars

NextPolicy ==
    \/ CallDeepMergeDicts
    \/ CallLoadProjectPolicy

InitPolicy ==
    /\ CoreIdle
    /\ VersionIdle
    /\ LogIdle
    /\ CliIdle
    /\ ReportIdle
    /\ PublishIdle
    /\ defaults \in Policies
    /\ override \in Policies \cup { Put(p, "__policy_path__", Scalar("x")) :
                                     p \in {EmptyDict} }
    /\ policy_out = NoPolicyOut
    /\ MkdocsIdle

SpecPolicy == InitPolicy /\ [][NextPolicy]_vars

(***************************************************************************)
(* C27.  The overlay, stated entry by entry rather than by the recursion.  *)
(***************************************************************************)
Reserved == {"__policy_path__"}

\* r is dict1 overlaid with dict2 for values nested at most two deep
Overlays(r, dict1, dict2) ==
    /\ DOMAIN r = DOMAIN dict1 \cup DOMAIN dict2
    /\ \A key \in DOMAIN r :
         IF key \notin DOMAIN dict2 THEN r[key] = dict1[key]
         ELSE IF key \notin DOMAIN dict1 THEN r[key] = dict2[key]
         ELSE IF dict1[key].type = "dict" /\ dict2[key].type = "dict"
           THEN /\ r[key].type = "dict"
                /\ DOMAIN r[key].items =
                       DOMAIN dict1[key].items \cup DOMAIN dict2[key].items
                /\ \A k \in DOMAIN r[key].items :
                     r[key].items[k] =
                         IF k \in DOMAIN dict2[key].items
                           THEN dict2[key].items[k]
                           ELSE dict1[key].items[k]
         ELSE r[key] = dict2[key]

Without(d, keys) == [k \in DOMAIN d \ keys |-> d[k]]

\* the dictionaries load_project_policy read from the two files
DefaultData ==
    IF policy_out.default_file = "dict" THEN defaults ELSE EmptyDict
CustomData ==
    IF policy_out.custom_file = "dict" THEN override ELSE EmptyDict
WasMerged ==
    /\ policy_out.project_root
    /\ policy_out.custom_file \in {"empty", "dict"}

\* C27: load_project_policy returns the defaults overlaid with the project's
\* policy, nested dictionaries merged key by key and any other value
\* replaced wholesale; an empty override gives the defaults; the inputs are
\* left as they were; and the result's "__policy_path__" names the project
\* file when one was merged and the default file otherwise.
C27_PolicyOverlay ==
    /\ (policy_out.fn = "_deep_merge_dicts" =>
          /\ Overlays(policy_out.policy, defaults, override)
          /\ (override = EmptyDict => policy_out.policy = defaults))
    /\ (policy_out.fn = "load_project_policy"
          /\ policy_out.kind = "returned" =>
          /\ "__policy_path__" \in DOMAIN policy_out.policy
          /\ policy_out.policy["__policy_path__"] =
                 IF WasMerged THEN CustomPolicyPath ELSE DefaultPolicyPath
          /\ Overlays(Without(policy_out.policy, Reserved), DefaultData,
                      IF WasMerged THEN Without(CustomData, Reserved)
                                   ELSE EmptyDict))
    /\ (policy_out.fn = "load_project_policy" =>
          (policy_out.kind = "returned" <=>
              ~(policy_out.project_root
                  /\ policy_out.custom_file = "YAMLError")))

\* C27 witness: a project policy that sets one nested setting and leaves
\* another nested setting of the defaults alone was merged
C27_Witness ==
    /\ policy_out.fn = "load_project_policy"
    /\ policy_out.kind = "returned"
    /\ WasMerged
    /\ policy_out.custom_file = "dict"
    /\ policy_out.default_file = "dict"
    /\ "docs" \in DOMAIN defaults /\ "docs" \in DOMAIN override
    /\ defaults["docs"].type = "dict" /\ override["docs"].type = "dict"
    /\ DOMAIN defaults["docs"].items = {"site_dir", "api_dir"}
    /\ DOMAIN override["docs"].items = {"site_dir"}
    /\ override["docs"].items["site_dir"] # defaults["docs"].items["site_dir"]
    /\ "log_level" \in DOMAIN defaults /\ "log_level" \notin DOMAIN override

(***************************************************************************)
(* publish_api_docs over all the packages of the project                   *)
(* (civic_lib_core/docs_api_build.py): one generate_api_docs per package,  *)
(* all into the one API directory, then index.md and mkdocs.yml.           *)
(***************************************************************************)
\* layout.packages: no package, one, or two
PackageLists ==
    { <<>> } \cup { <<p>> : p \in SmallPackages }
    \cup { <<p, q>> : p \in SmallPackages, q \in SmallPackages }

\* generate_api_docs(source_pkg_path, project_root, policy) for the next
\* package of the loop in publish_api_docs
CallGenerateApiDocs ==
    /\ pkg_next \in 1..Len(packages)
    /\ LET pkg == packages[pkg_next]
           api == ExtractAll("dynamic", pkg, DOMAIN pkg)
       IN  /\ out_dir' = GenerateDocs(api, {"markdown"}, out_dir)
           /\ docs_call' =
                [NoCall EXCEPT !.fn = "generate_api_docs",
                               !.formats = {"markdown"},
                               !.result = "returned",
                               !.log = GenerateDocsLog(api)]
    /\ pkg_next' = pkg_next + 1
    /\ ran' = NoRuns
    /\ UNCHANGED <<packages, site>>
    /\ UNCHANGED fetchVars
    /\ UNCHANGED extractVars
    /\ UNCHANGED versionVars
    /\ UNCHANGED logVars
    /\ UNCHANGED cliVars
    /\ UNCHANGED reportVars
    /\ UNCHANGED policyVars
    /\ UNCHANGED mkdocsVars

\* publish_api_docs() after its loop: write_index_md, generate_mkdocs_config,
\* "published successfully"
PublishApiDocsReturn ==
    /\ pkg_next = Len(packages) + 1
    /\ site' = [written |-> TRUE, nav |-> NavOf(TRUE, <<>>, TRUE, out_dir)]
    /\ docs_call' =
         [NoCall EXCEPT !.fn = "publish_api_docs",
                        !.formats = {"markdown"},
                        !.include_api_nav = TRUE,
                        !.under_root = TRUE,
                        !.result = "returned",
                        !.log = {"INFO API documentation published successfully."}]
    /\ pkg_next' = pkg_next + 1
    /\ UNCHANGED <<packages, out_dir, ran>>
    /\ UNCHANGED fetchVars
    /\ UNCHANGED extractVars
    /\ UNCHANGED versionVars
    /\ UNCHANGED logVars
    /\ UNCHANGED cliVars
    /\ UNCHANGED reportVars
    /\ UNCHANGED policyVars
    /\ UNCHANGED mkdocsVars

NextPackages ==
    \/ CallGenerateApiDocs
    \/ PublishApiDocsReturn

InitPackages ==
    /\ FetchIdle
    /\ ExtractIdle
    /\ out_dir \in {NoDir, [exists |-> TRUE, files |-> EmptyDict]}
    /\ ran = NoRuns
    /\ site = NoSite
    /\ docs_call = NoCall
    /\ VersionIdle
    /\ LogIdle
    /\ CliIdle
    /\ ReportIdle
    /\ PolicyIdle
    /\ packages \in PackageLists
    /\ pkg_next = 1
    /\ MkdocsIdle

SpecPackages == InitPackages /\ [][NextPackages]_vars

(***************************************************************************)
(* C28.                                                                    *)
(***************************************************************************)
\* the modules of the project: package number and file
ModulesOf(pkgs) ==
    { <<i, path>> : i \in 1..Len(pkgs), path \in FilePaths } \cap
    UNION { { <<i, path>> : path \in DOMAIN pkgs[i] } : i \in 1..Len(pkgs) }

\* what extract_module_api makes of the one file
ApiOf(pkgs, m) == ExtractAll("dynamic", pkgs[m[1]], {m[2]})

\* the module is extracted and has a public function or class
HasPublicApi(pkgs, m) ==
    /\ m[1] \in 1..Len(pkgs)
    /\ m[2] \in DOMAIN pkgs[m[1]]
    /\ LET api == ApiOf(pkgs, m)
       IN  \E k \in DOMAIN api :
             GetList(api[k], "functions") # <<>>
               \/ GetList(api[k], "classes") # <<>>

\* the Markdown of the module
ContentOf(pkgs, m) ==
    LET api == ApiOf(pkgs, m)
        k == CHOOSE x \in DOMAIN api : TRUE
    IN  WriteModuleMarkdown(k, GetList(api[k], "functions"),
                            GetList(api[k], "classes"))

Published == pkg_next = Len(packages) + 2

\* C28: once publish_api_docs has returned, every module with a public API
\* in every package has a Markdown file of its own in the API directory,
\* holding that module's content.
C28_OwnFilePerModule ==
    Published =>
      LET mods == { m \in ModulesOf(packages) : HasPublicApi(packages, m) }
      IN  \E file \in [mods -> DOMAIN out_dir.files] :
            /\ \A m \in mods : out_dir.files[file[m]] = ContentOf(packages, m)
            /\ \A m, n \in mods : m # n => file[m] # file[n]

\* C28: two packages each had a module m with a public API, of different
\* content, and the API directory holds one m.md
C28_Overwritten ==
    /\ Published
    /\ Len(packages) = 2
    /\ HasPublicApi(packages, <<1, << <<"m">> >> >>)
    /\ HasPublicApi(packages, <<2, << <<"m">> >> >>)
    /\ ContentOf(packages, <<1, << <<"m">> >> >>)
         # ContentOf(packages, <<2, << <<"m">> >> >>)
    /\ DOMAIN out_dir.files = { MdName(<<"m">>) }
    /\ out_dir.files[MdName(<<"m">>)] = ContentOf(packages, <<2, << <<"m">> >> >>)

(***************************************************************************)
(* Where the site configuration goes and what it names                     *)
(* (fs_utils.get_mkdocs_paths, docs_api_config.generate_mkdocs_config,     *)
(* docs_api_build.publish_api_docs).  A path is given by its name under    *)
(* the project root.                                                       *)
(***************************************************************************)
\* what a policy may say about the site, at the top and in its docs section
SiteSettings ==
    { s \in DictsOver({"mkdocs_config", "mkdocs_src_dir"},
                      {Scalar("mkdocs.yml"), Scalar("site.yml"),
                       Scalar("mkdocs_src"), Scalar("site_src")}) :
        /\ "mkdocs_config" \in DOMAIN s =>
             s["mkdocs_config"].value \in {"mkdocs.yml", "site.yml"}
        /\ "mkdocs_src_dir" \in DOMAIN s =>
             s["mkdocs_src_dir"].value \in {"mkdocs_src", "site_src"} }

SitePolicies ==
    SiteSettings \cup
    { Put(s, "docs", Dict(d)) : s \in SiteSettings, d \in SiteSettings }

\* policy.get(key, default) for a text
PolicyGet(policy, key, default) ==
    IF key \in DOMAIN policy THEN policy[key].value ELSE default

\* policy.get("docs", {})
DocsSection(policy) ==
    IF "docs" \in DOMAIN policy THEN policy["docs"].items ELSE EmptyDict

\* fs_utils.get_mkdocs_paths(policy, project_root)
GetMkdocsPaths(policy) ==
    [mkdocs_config_file_path |->
         PolicyGet(DocsSection(policy), "mkdocs_config", "mkdocs.yml"),
     mkdocs_src_path |->
         PolicyGet(DocsSection(policy), "mkdocs_src_dir", "mkdocs_src")]

\* docs_api_config.generate_mkdocs_config: the file it writes, the docs_dir
\* in it, and the directory its nav targets are relative to
GenerateMkdocsConfig(policy, mkdocs_base_src_dir) ==
    [config_path |-> PolicyGet(policy, "mkdocs_config", "mkdocs.yml"),
     docs_dir |-> PolicyGet(policy, "mkdocs_src_dir", "mkdocs_src"),
     nav_base |-> IF mkdocs_base_src_dir = None
                    THEN GetMkdocsPaths(policy).mkdocs_src_path
                    ELSE mkdocs_base_src_dir]

\* fs_utils.get_mkdocs_paths(policy, project_root)
CallGetMkdocsPaths ==
    /\ mkdocs.fn = "none"
    /\ mkdocs' = [NoMkdocs EXCEPT
                    !.fn = "get_mkdocs_paths",
                    !.config_path =
                        GetMkdocsPaths(site_policy).mkdocs_config_file_path,
                    !.docs_dir = GetMkdocsPaths(site_policy).mkdocs_src_path]
    /\ UNCHANGED site_policy
    /\ UNCHANGED coreVars
    /\ UNCHANGED versionVars
    /\ UNCHANGED logVars
    /\ UNCHANGED cliVars
    /\ UNCHANGED reportVars
    /\ UNCHANGED policyVars
    /\ UNCHANGED publishVars

\* docs_api_config.generate_mkdocs_config(project_name, root_dir, policy)
\* with no mkdocs_base_src_dir
CallGenerateMkdocsConfigFor ==
    /\ mkdocs.fn = "none"
    /\ LET done == GenerateMkdocsConfig(site_policy, None)
       IN  mkdocs' = [NoMkdocs EXCEPT
                        !.fn = "generate_mkdocs_config",
                        !.config_path = done.config_path,
                        !.docs_dir = done.docs_dir,
                        !.nav_base = done.nav_base]
    /\ UNCHANGED site_policy
    /\ UNCHANGED coreVars
    /\ UNCHANGED versionVars
    /\ UNCHANGED logVars
    /\ UNCHANGED cliVars
    /\ UNCHANGED reportVars
    /\ UNCHANGED policyVars
    /\ UNCHANGED publishVars

\* docs_api_build.publish_api_docs() after its loop: write_index_md into the
\* source directory of get_mkdocs_paths, then generate_mkdocs_config with
\* that directory
CallWriteIndexAndConfig ==
    /\ mkdocs.fn = "none"
    /\ LET mkdocs_base_src_dir == GetMkdocsPaths(site_policy).mkdocs_src_path
           done == GenerateMkdocsConfig(site_policy, mkdocs_base_src_dir)
       IN  mkdocs' = [fn |-> "publish_api_docs",
                      config_path |-> done.config_path,
                      docs_dir |-> done.docs_dir,
                      nav_base |-> done.nav_base,
                      index_dir |-> mkdocs_base_src_dir]
    /\ UNCHANGED site_policy
    /\ UNCHANGED coreVars
    /\ UNCHANGED versionVars
    /\ UNCHANGED logVars
    /\ UNCHANGED cliVars
    /\ UNCHANGED reportVars
    /\ UNCHANGED policyVars
    /\ UNCHANGED publishVars

NextMkdocs ==
    \/ CallGetMkdocsPaths
    \/ CallGenerateMkdocsConfigFor
    \/ CallWriteIndexAndConfig

InitMkdocs ==
    /\ CoreIdle
    /\ VersionIdle
    /\ LogIdle
    /\ CliIdle
    /\ ReportIdle
    /\ PolicyIdle
    /\ PublishIdle
    /\ site_policy \in SitePolicies
    /\ mkdocs = NoMkdocs

SpecMkdocs == InitMkdocs /\ [][NextMkdocs]_vars

(***************************************************************************)
(* C29.                                                                    *)
(***************************************************************************)
WroteConfig == mkdocs.fn \in {"generate_mkdocs_config", "publish_api_docs"}

\* C29: the docs_dir written into mkdocs.yml names the source directory of
\* get_mkdocs_paths, which is where index.md is written and what the nav
\* targets are relative to, and the config file is written at the path
\* get_mkdocs_paths reports.
C29_DocsDirAgrees ==
    WroteConfig =>
      /\ mkdocs.docs_dir = GetMkdocsPaths(site_policy).mkdocs_src_path
      /\ mkdocs.nav_base = GetMkdocsPaths(site_policy).mkdocs_src_path
      /\ (mkdocs.fn = "publish_api_docs" =>
            mkdocs.index_dir = GetMkdocsPaths(site_policy).mkdocs_src_path)
      /\ mkdocs.config_path = GetMkdocsPaths(site_policy).mkdocs_config_file_path

\* C29: what does hold: index.md and the nav targets are under the source
\* directory of get_mkdocs_paths
C29_IndexAndNavAgree ==
    WroteConfig =>
      /\ mkdocs.nav_base = GetMkdocsPaths(site_policy).mkdocs_src_path
      /\ (mkdocs.fn = "publish_api_docs" =>
            mkdocs.index_dir = GetMkdocsPaths(site_policy).mkdocs_src_path)

\* C29: a policy whose docs section renames the source directory was
\* published: index.md went to site_src, mkdocs.yml says mkdocs_src
C29_DocsDirDiffers ==
    /\ mkdocs.fn = "publish_api_docs"
    /\ DOMAIN site_policy = {"docs"}
    /\ DOMAIN site_policy["docs"].items = {"mkdocs_src_dir"}
    /\ mkdocs.index_dir = "site_src"
    /\ mkdocs.docs_dir = "mkdocs_src"

====
